---- MODULE Spec2Model ----
(***************************************************************************)
(* CBXShell-rs: archive backends (ZIP / RAR / 7z, file and stream),        *)
(* entry-selection policy, size guard, RAR staging file, decoder tiers and *)
(* archive-format detection.                                               *)
(***************************************************************************)
EXTENDS Integers, Sequences, FiniteSets, TLC

(***************************************************************************)
(* Bounds of the model.                                                    *)
(***************************************************************************)
MaxEntries == 4
MaxHandleEntries == 2
MaxChunks == 2
MaxStagedEntries == 1
MaxPrefixLen == 9

(***************************************************************************)
(* Characters.  A name is a sequence of one-character strings; CharOrder   *)
(* lists the characters in code-point order.                               *)
(***************************************************************************)
CharOrder ==
    <<" ", ".", "/", "0", "1", "2", "J", "P", "\\",
      "a", "d", "e", "g", "j", "m", "p", "r", "t", "x">>

Code(c) == CHOOSE i \in 1..Len(CharOrder) : CharOrder[i] = c

Digits == <<"0", "1", "2", "3", "4", "5", "6", "7", "8", "9">>

\* char::to_digit(10): the digit value, or -1 for None
ToDigit(c) ==
    IF \E d \in 1..10 : Digits[d] = c
    THEN (CHOOSE d \in 1..10 : Digits[d] = c) - 1
    ELSE -1

IsWhitespace(c) == c = " "

UpperCase ==
    <<"A", "B", "C", "D", "E", "F", "G", "H", "I", "J", "K", "L", "M",
      "N", "O", "P", "Q", "R", "S", "T", "U", "V", "W", "X", "Y", "Z">>

LowerCase ==
    <<"a", "b", "c", "d", "e", "f", "g", "h", "i", "j", "k", "l", "m",
      "n", "o", "p", "q", "r", "s", "t", "u", "v", "w", "x", "y", "z">>

\* the place of c in the letters, 0 if it is not among them
LetterIndex(letters, c) ==
    IF \E i \in 1..26 : letters[i] = c
    THEN CHOOSE i \in 1..26 : letters[i] = c
    ELSE 0

\* u8/char::to_ascii_lowercase
ToAsciiLowercase(c) ==
    IF LetterIndex(UpperCase, c) = 0 THEN c
    ELSE LowerCase[LetterIndex(UpperCase, c)]

LowerStr(s) == [i \in 1..Len(s) |-> ToAsciiLowercase(s[i])]

(***************************************************************************)
(* Path::new(name).extension(): the part of the last path component after  *)
(* its last dot; None (here <<"?">>) when the component has no dot or only *)
(* a leading one.                                                          *)
(***************************************************************************)
NoExt == <<"?">>

IsSeparator(c) == c = "/" \/ c = "\\"

RECURSIVE StripTrailingSep(_)
StripTrailingSep(s) ==
    IF Len(s) > 0 /\ IsSeparator(s[Len(s)])
    THEN StripTrailingSep(SubSeq(s, 1, Len(s) - 1))
    ELSE s

\* the greatest element of a set of positions, 0 if it is empty
LastOf(hits) ==
    IF hits = {} THEN 0 ELSE CHOOSE i \in hits : \A j \in hits : j <= i

\* position of the last separator of t, 0 if there is none
LastSeparator(t) == LastOf({i \in 1..Len(t) : IsSeparator(t[i])})

\* position of the last dot of f, 0 if there is none
LastDot(f) == LastOf({i \in 1..Len(f) : f[i] = "."})

\* what follows position k of s
After(s, k) == SubSeq(s, k + 1, Len(s))

\* Path::file_name
FileName(s) ==
    After(StripTrailingSep(s), LastSeparator(StripTrailingSep(s)))

\* the extension of file name f whose last dot is at position dot
SplitAtDot(f, dot) ==
    IF f = <<>> \/ f = <<".", ".">> \/ dot = 0 THEN NoExt
    ELSE IF dot = 1 THEN NoExt
    ELSE After(f, dot)

ExtensionOf(f) == SplitAtDot(f, LastDot(f))

\* Path::extension
Extension(s) == ExtensionOf(FileName(s))

IMAGE_EXTENSIONS ==
    { <<"b","m","p">>, <<"i","c","o">>, <<"g","i","f">>, <<"j","p","g">>,
      <<"j","p","e">>, <<"j","f","i","f">>, <<"j","p","e","g">>,
      <<"p","n","g">>, <<"t","i","f">>, <<"t","i","f","f">>,
      <<"w","e","b","p">>, <<"a","v","i","f">> }

\* the test of is_image_file on the extension
IsImageExt(ext) == ext # NoExt /\ LowerStr(ext) \in IMAGE_EXTENSIONS

is_image_file(name) == IsImageExt(Extension(name))

(***************************************************************************)
(* natord::compare, as called by natural_sort_cmp: whitespace is skipped,  *)
(* digit runs are compared left-aligned when one starts with 0 and         *)
(* right-aligned (longer run is greater) otherwise, other characters by    *)
(* code point.                                                             *)
(***************************************************************************)
CmpInt(x, y) == IF x < y THEN "Less" ELSE IF x > y THEN "Greater" ELSE "Equal"

DigitAt(s, i) == IF i <= Len(s) THEN ToDigit(s[i]) ELSE -1

RECURSIVE SkipWs(_, _)
SkipWs(s, i) ==
    IF i <= Len(s) /\ IsWhitespace(s[i]) THEN SkipWs(s, i + 1) ELSE i

\* the 'digits_left loop: <<ordering, i, j>>, "Equal" when both runs ended
RECURSIVE DigitsLeft(_, _, _, _)

DigitsLeftStep(a, b, i, j, ld, rd) ==
    IF ld >= 0 /\ rd >= 0
    THEN IF ld # rd THEN <<CmpInt(ld, rd), i, j>>
         ELSE DigitsLeft(a, b, i, j)
    ELSE IF ld >= 0 THEN <<"Greater", i, j>>
    ELSE IF rd >= 0 THEN <<"Less", i, j>>
    ELSE <<"Equal", i, j>>

DigitsLeft(a, b, i, j) ==
    DigitsLeftStep(a, b, i + 1, j + 1, DigitAt(a, i + 1), DigitAt(b, j + 1))

\* the 'digits_right loop
RECURSIVE DigitsRight(_, _, _, _, _)

DigitsRightStep(a, b, i, j, lastcmp, ld, rd) ==
    IF ld >= 0 /\ rd >= 0
    THEN DigitsRight(a, b, i, j,
                     IF lastcmp = "Equal" THEN CmpInt(ld, rd) ELSE lastcmp)
    ELSE IF ld >= 0 THEN <<"Greater", i, j>>
    ELSE IF rd >= 0 THEN <<"Less", i, j>>
    ELSE <<lastcmp, i, j>>

DigitsRight(a, b, i, j, lastcmp) ==
    DigitsRightStep(a, b, i + 1, j + 1, lastcmp,
                    DigitAt(a, i + 1), DigitAt(b, j + 1))

RECURSIVE CompareFrom(_, _, _, _)

\* after a digit run: decided, or go on behind the runs
AfterRun(a, b, run) ==
    IF run[1] # "Equal" THEN run[1] ELSE CompareFrom(a, b, run[2], run[3])

\* both sides have a character at i, j; ld, rd are their digit values
CompareChars(a, b, i, j, ld, rd) ==
    IF ld >= 0 /\ rd >= 0
    THEN AfterRun(a, b,
             IF ld = 0 \/ rd = 0
             THEN IF ld # rd THEN <<CmpInt(ld, rd), i, j>>
                  ELSE DigitsLeft(a, b, i, j)
             ELSE DigitsRight(a, b, i, j, CmpInt(ld, rd)))
    ELSE IF a[i] # b[j] THEN CmpInt(Code(a[i]), Code(b[j]))
    ELSE CompareFrom(a, b, i + 1, j + 1)

\* i, j are the next positions that are not whitespace
CompareAt(a, b, i, j) ==
    IF i <= Len(a) /\ j <= Len(b)
    THEN CompareChars(a, b, i, j, DigitAt(a, i), DigitAt(b, j))
    ELSE IF i <= Len(a) THEN "Greater"
    ELSE IF j <= Len(b) THEN "Less"
    ELSE "Equal"

CompareFrom(a, b, i0, j0) == CompareAt(a, b, SkipWs(a, i0), SkipWs(b, j0))

natural_sort_cmp(a, b) == CompareFrom(a, b, 1, 1)

(***************************************************************************)
(* slice::sort_by is stable: an element is inserted after the elements     *)
(* that are not greater than it.                                           *)
(***************************************************************************)
RECURSIVE InsertSorted(_, _)
InsertSorted(sorted, x) ==
    IF sorted = <<>> THEN <<x>>
    ELSE IF natural_sort_cmp(x, Head(sorted)) = "Less" THEN <<x>> \o sorted
    ELSE <<Head(sorted)>> \o InsertSorted(Tail(sorted), x)

RECURSIVE SortBy(_)
SortBy(s) ==
    IF s = <<>> THEN <<>>
    ELSE InsertSorted(SortBy(SubSeq(s, 1, Len(s) - 1)), s[Len(s)])

RECURSIVE FilterImages(_)
FilterImages(names) ==
    IF names = <<>> THEN <<>>
    ELSE IF is_image_file(Head(names))
         THEN <<Head(names)>> \o FilterImages(Tail(names))
         ELSE FilterImages(Tail(names))

NoName == <<>>

\* utils::find_first_image with the sort step left out
find_first_image_NoSort(names, sort) ==
    LET images == FilterImages(names)
    IN IF images = <<>> THEN NoName ELSE Head(images)

\* utils::find_first_image: NoName stands for None
find_first_image(names, sort) ==
    LET images == FilterImages(names)
    IN IF images = <<>> THEN NoName
       ELSE IF sort THEN Head(SortBy(images))
       ELSE Head(images)


(***************************************************************************)
(* Archive entries and results.                                            *)
(***************************************************************************)
MAX_ENTRY_SIZE == 33554432

Page1 == <<"p","a","g","e","1",".","j","p","g">>
Page2 == <<"p","a","g","e","2",".","j","p","g">>
Page10 == <<"p","a","g","e","1","0",".","j","p","g">>
Readme == <<"r","e","a","d","m","e",".","t","x","t">>
Data == <<"d","a","t","a",".","t","x","t">>
Ghost == <<"g","e","t",".","j","p","g">>

\* ArchiveEntry { name, size, is_directory }
ArchiveEntry(n, s, d) == [name |-> n, size |-> s, is_directory |-> d]

NoEntry == ArchiveEntry(NoName, 0, FALSE)

EntryUniverse ==
    { ArchiveEntry(Page1, 7, FALSE),
      ArchiveEntry(Page2, MAX_ENTRY_SIZE, FALSE),
      ArchiveEntry(Page10, MAX_ENTRY_SIZE + 1, FALSE),
      ArchiveEntry(Readme, 9, FALSE),
      ArchiveEntry(Data, 0, FALSE) }

\* the entries of the archives whose handle is operated on repeatedly
HandleUniverse ==
    { ArchiveEntry(Page1, 7, FALSE),
      ArchiveEntry(Page2, MAX_ENTRY_SIZE, FALSE),
      ArchiveEntry(Page10, MAX_ENTRY_SIZE + 1, FALSE),
      ArchiveEntry(Readme, 9, FALSE) }

\* entries a caller can hand to extract_entry: listed ones, one that is in
\* no archive, and one whose size field is not the size of the entry of
\* that name in the archive
CallerEntries ==
    { ArchiveEntry(Page1, 7, FALSE),
      ArchiveEntry(Page2, MAX_ENTRY_SIZE, FALSE),
      ArchiveEntry(Page10, MAX_ENTRY_SIZE + 1, FALSE),
      ArchiveEntry(Page10, 7, FALSE),
      ArchiveEntry(Ghost, 5, FALSE) }

Backends == {"ZipFile", "ZipStream", "RarFile", "RarStream", "SevenZFile", "SevenZStream"}

IsZip(b) == b \in {"ZipFile", "ZipStream"}
IsRar(b) == b \in {"RarFile", "RarStream"}
IsSevenZ(b) == b \in {"SevenZFile", "SevenZStream"}

\* handles whose reader lives in a RefCell for the handle's lifetime
HasRefCell(b) == b \in {"ZipFile", "ZipStream", "SevenZStream"}

\* Result<T>: one record shape for every T
ResErr(kind, msg) ==
    [ok |-> FALSE, kind |-> kind, msg |-> msg, entry |-> NoEntry,
     len |-> 0, total_files |-> 0, image_count |-> 0]

ResEntry(e) ==
    [ok |-> TRUE, kind |-> "", msg |-> "", entry |-> e,
     len |-> 0, total_files |-> 0, image_count |-> 0]

ResData(n) ==
    [ok |-> TRUE, kind |-> "", msg |-> "", entry |-> NoEntry,
     len |-> n, total_files |-> 0, image_count |-> 0]

ResMeta(t, i) ==
    [ok |-> TRUE, kind |-> "", msg |-> "", entry |-> NoEntry,
     len |-> 0, total_files |-> t, image_count |-> i]

ResNames(ns) ==
    [ok |-> TRUE, names |-> ns, kind |-> "", msg |-> ""]

\* CbxError::Archive(msg)
ArchiveErr(msg) == ResErr("Archive", msg)

(***************************************************************************)
(* The byte source.  Entry i of an archive sits at offset i; offset 0 is   *)
(* the start of the container and Len + 1 its end.  An io record is the    *)
(* log of what an operation did to the source and the reader position it   *)
(* left.  bad is the index of an entry whose header cannot be read         *)
(* (0: none).                                                              *)
(***************************************************************************)
Io(log, pos) == [log |-> log, pos |-> pos]

Ev(io, e) == Io(Append(io.log, e), io.pos)

\* RefCell::borrow_mut and the drop of the RefMut
BorrowMut(io) == Ev(io, "borrow")
Release(io) == Ev(io, "release")

\* Seek::seek(SeekFrom::Start(p))
SeekStart(io, p) == Io(Append(io.log, "seek"), p)

\* a read of n slots from the current position
ReadAt(io, n) == Io(Append(io.log, "read"), io.pos + n)

\* File::open / UnrarArchive::new(path).open_for_*: a private reader at 0
OpenFile(io) == Io(Append(io.log, "open"), 0)

\* Vec::with_capacity
Alloc(io) == Ev(io, "alloc")

Out(res, io, seen) == [res |-> res, io |-> io, seen |-> seen]

EntryNames(a) == [i \in 1..Len(a) |-> a[i].name]

RECURSIVE CountImages(_)
CountImages(names) ==
    IF names = <<>> THEN 0
    ELSE (IF is_image_file(Head(names)) THEN 1 ELSE 0) + CountImages(Tail(names))

\* entries.into_iter().find(|e| e.name == image_name)
FindByName(entries, name) ==
    LET hits == {i \in 1..Len(entries) : entries[i].name = name}
    IN IF hits = {} THEN NoEntry
       ELSE entries[CHOOSE i \in hits : \A j \in hits : i <= j]


(***************************************************************************)
(* ZIP backends (ZipArchive and ZipArchiveFromStream run the same code     *)
(* over RefCell<ZipReader<R>>).  The central directory is read at open     *)
(* time; by_index seeks to the entry's local header and reads it.          *)
(***************************************************************************)
\* ZipReader::by_index(i): <<io, ok>>
ZipByIndex(io, bad, i) == <<ReadAt(SeekStart(io, i), 0), i # bad>>

\* get_entry_names: entries whose header cannot be read are left out
RECURSIVE ZipNamesLoop(_, _, _, _, _)
ZipNamesLoop(a, bad, i, io, names) ==
    IF i > Len(a) THEN <<names, io>>
    ELSE LET r == ZipByIndex(io, bad, i)
         IN ZipNamesLoop(a, bad, i + 1, r[1],
                         IF r[2] THEN Append(names, a[i].name) ELSE names)

ZipGetEntryNames(a, bad, io) ==
    LET r == ZipNamesLoop(a, bad, 1, BorrowMut(io), <<>>)
    IN <<r[1], Release(r[2])>>

\* the loop of get_entry_by_name
RECURSIVE ZipEntryLoop(_, _, _, _, _)
ZipEntryLoop(a, bad, name, i, io) ==
    IF i > Len(a) THEN Out(ArchiveErr("Entry not found"), io, Len(a))
    ELSE LET r == ZipByIndex(io, bad, i)
         IN IF ~r[2] THEN Out(ArchiveErr("Failed to get entry"), r[1], i)
            ELSE IF a[i].name = name THEN Out(ResEntry(a[i]), r[1], i)
            ELSE ZipEntryLoop(a, bad, name, i + 1, r[1])

ZipGetEntryByName(a, bad, name, io) ==
    LET o == ZipEntryLoop(a, bad, name, 1, BorrowMut(io))
    IN Out(o.res, Release(o.io), o.seen)

\* the fast path of find_first_image
RECURSIVE ZipFastLoop(_, _, _, _)
ZipFastLoop(a, bad, i, io) ==
    IF i > Len(a) THEN Out(ArchiveErr("No images found in archive"), io, Len(a))
    ELSE LET r == ZipByIndex(io, bad, i)
         IN IF r[2] /\ is_image_file(a[i].name) THEN Out(ResEntry(a[i]), r[1], i)
            ELSE ZipFastLoop(a, bad, i + 1, r[1])

ZipSortedPath(a, bad, sort, io) ==
    LET n == ZipGetEntryNames(a, bad, io)
        image_name == find_first_image(n[1], sort)
    IN IF n[1] = <<>> THEN Out(ArchiveErr("Archive is empty"), n[2], Len(a))
       ELSE IF image_name = NoName
            THEN Out(ArchiveErr("No images found in archive"), n[2], Len(a))
       ELSE LET o == ZipGetEntryByName(a, bad, image_name, n[2])
            IN Out(o.res, o.io, Len(a))

\* find_first_image without the fast path: every request lists all names
ZipFindFirstImage_AlwaysList(a, bad, sort, io) ==
    ZipSortedPath(a, bad, sort, io)

ZipFindFirstImage(a, bad, sort, io) ==
    IF ~sort
    THEN LET o == ZipFastLoop(a, bad, 1, BorrowMut(io))
         IN Out(o.res, Release(o.io), o.seen)
    ELSE ZipSortedPath(a, bad, sort, io)

\* extract_entry with the size check after the entry was located
ZipExtractEntry_GuardLate(a, bad, entry, io) ==
    LET io1 == BorrowMut(io)
        hits == {i \in 1..Len(a) : a[i].name = entry.name}
        idx == CHOOSE i \in hits : \A j \in hits : j <= i
        r == ZipByIndex(io1, bad, idx)
    IN IF hits = {} THEN Out(ArchiveErr("Entry not found"), Release(io1), 0)
       ELSE IF ~r[2] THEN Out(ArchiveErr("Entry not found"), Release(r[1]), 0)
       ELSE IF entry.size > MAX_ENTRY_SIZE
            THEN Out(ArchiveErr("Entry too large"), Release(r[1]), 0)
       ELSE Out(ResData(a[idx].size), Release(ReadAt(Alloc(r[1]), 1)), 0)

\* extract_entry: size guard, by_name, with_capacity, read_to_end
ZipExtractEntry(a, bad, entry, io) ==
    IF entry.size > MAX_ENTRY_SIZE THEN Out(ArchiveErr("Entry too large"), io, 0)
    ELSE LET io1 == BorrowMut(io)
             hits == {i \in 1..Len(a) : a[i].name = entry.name}
             idx == CHOOSE i \in hits : \A j \in hits : j <= i
             r == ZipByIndex(io1, bad, idx)
         IN IF hits = {} THEN Out(ArchiveErr("Entry not found"), Release(io1), 0)
            ELSE IF ~r[2] THEN Out(ArchiveErr("Entry not found"), Release(r[1]), 0)
            ELSE Out(ResData(a[idx].size), Release(ReadAt(Alloc(r[1]), 1)), 0)

ZipGetMetadata(a, bad, io) ==
    LET n == ZipGetEntryNames(a, bad, io)
    IN Out(ResMeta(Len(n[1]), CountImages(n[1])), n[2], Len(a))


(***************************************************************************)
(* RAR backends (RarArchive over its path, RarArchiveFromMemory over its   *)
(* staging file).  Every operation opens the file anew; the listing        *)
(* iterator yields an error at an unreadable header and the loops return   *)
(* it.                                                                     *)
(***************************************************************************)
\* the listing loop of list_entries
RECURSIVE RarListLoop(_, _, _, _, _)
RarListLoop(a, bad, i, io, entries) ==
    IF i > Len(a) THEN <<ResNames(entries), io>>
    ELSE LET io1 == ReadAt(io, 1)
         IN IF i = bad THEN <<ArchiveErr("RAR entry error"), io1>>
            ELSE RarListLoop(a, bad, i + 1, io1, Append(entries, a[i]))

RarListEntries(a, bad, io) == RarListLoop(a, bad, 1, OpenFile(io), <<>>)

\* the fast path of find_first_image
RECURSIVE RarFastLoop(_, _, _, _)
RarFastLoop(a, bad, i, io) ==
    IF i > Len(a) THEN Out(ArchiveErr("No images found in archive"), io, Len(a))
    ELSE LET io1 == ReadAt(io, 1)
         IN IF i = bad THEN Out(ArchiveErr("RAR entry error"), io1, i)
            ELSE IF is_image_file(a[i].name) THEN Out(ResEntry(a[i]), io1, i)
            ELSE RarFastLoop(a, bad, i + 1, io1)

\* the sorted path shared by the RAR and 7z backends, given the listing
SortedFromListing(a, l, sort) ==
    LET entries == l[1].names
        image_name == find_first_image(EntryNames(entries), sort)
        e == FindByName(entries, image_name)
    IN IF ~l[1].ok THEN Out(l[1], l[2], Len(a))
       ELSE IF entries = <<>> THEN Out(ArchiveErr("Archive is empty"), l[2], Len(a))
       ELSE IF image_name = NoName
            THEN Out(ArchiveErr("No images found in archive"), l[2], Len(a))
       ELSE IF e = NoEntry THEN Out(ArchiveErr("Image entry not found"), l[2], Len(a))
       ELSE Out(ResEntry(e), l[2], Len(a))

RarFindFirstImage(a, bad, sort, io) ==
    IF ~sort THEN RarFastLoop(a, bad, 1, OpenFile(io))
    ELSE SortedFromListing(a, RarListEntries(a, bad, io), sort)

\* the read_header loop of extract_entry
RECURSIVE RarExtractLoop(_, _, _, _, _)
RarExtractLoop(a, bad, entry, i, io) ==
    IF i > Len(a) THEN Out(ArchiveErr("Entry not found in RAR"), io, Len(a))
    ELSE LET io1 == ReadAt(io, 0)
         IN IF i = bad THEN Out(ArchiveErr("Failed to read RAR header"), io1, i)
            ELSE IF a[i].name = entry.name
                 THEN Out(ResData(a[i].size), ReadAt(Alloc(io1), 1), i)
            ELSE RarExtractLoop(a, bad, entry, i + 1, SeekStart(io1, i + 1))

\* a failed pass followed by a second one over a reopened archive
RarSecondPass(a, bad, entry, o) ==
    IF o.res.ok THEN o ELSE RarExtractLoop(a, bad, entry, 1, OpenFile(o.io))

\* extract_entry that tries again when the first pass fails
RarExtractEntry_Retry(a, bad, entry, io) ==
    IF entry.size > MAX_ENTRY_SIZE THEN Out(ArchiveErr("Entry too large"), io, 0)
    ELSE RarSecondPass(a, bad, entry,
                       RarExtractLoop(a, bad, entry, 1, OpenFile(io)))

RarExtractEntry(a, bad, entry, io) ==
    IF entry.size > MAX_ENTRY_SIZE THEN Out(ArchiveErr("Entry too large"), io, 0)
    ELSE RarExtractLoop(a, bad, entry, 1, OpenFile(io))

MetaFromListing(a, l) ==
    IF ~l[1].ok THEN Out(l[1], l[2], Len(a))
    ELSE Out(ResMeta(Len(l[1].names), CountImages(EntryNames(l[1].names))),
             l[2], Len(a))

RarGetMetadata(a, bad, io) == MetaFromListing(a, RarListEntries(a, bad, io))


(***************************************************************************)
(* 7z backends.  SevenZipArchive opens its path for every operation;       *)
(* SevenZipArchiveFromStream keeps the reader in a RefCell and, for every  *)
(* operation, borrows it, seeks to offset 0 and builds a new SevenZReader, *)
(* which parses the container from the reader's current position.          *)
(***************************************************************************)
\* the reader handed to SevenZReader::new, without the seek to the start
SevenZAcquire_NoSeek(b, io) ==
    IF b = "SevenZStream" THEN BorrowMut(io) ELSE OpenFile(io)

\* the reader handed to SevenZReader::new
SevenZAcquire(b, io) ==
    IF b = "SevenZStream" THEN SeekStart(BorrowMut(io), 0) ELSE OpenFile(io)

\* the end of the operation with the RefMut kept alive
SevenZRelease_Leak(b, io) == io

\* the end of the operation: the RefMut goes out of scope
SevenZRelease(b, io) == IF b = "SevenZStream" THEN Release(io) ELSE io

\* SevenZReader::new: <<io, ok>>; the signature is at offset 0
SevenZReaderNew(io) == <<ReadAt(io, 1), io.pos = 0>>

\* for_each_entries of list_entries
RECURSIVE SevenZListLoop(_, _, _, _, _)
SevenZListLoop(a, bad, i, io, entries) ==
    IF i > Len(a) THEN <<ResNames(entries), io>>
    ELSE LET io1 == ReadAt(io, 1)
         IN IF i = bad THEN <<ArchiveErr("7z iteration error"), io1>>
            ELSE SevenZListLoop(a, bad, i + 1, io1, Append(entries, a[i]))

SevenZListEntries(b, a, bad, io) ==
    LET n == SevenZReaderNew(SevenZAcquire(b, io))
        l == SevenZListLoop(a, bad, 1, n[1], <<>>)
    IN IF ~n[2]
       THEN <<ArchiveErr("Failed to create 7z reader"), SevenZRelease(b, n[1])>>
       ELSE <<l[1], SevenZRelease(b, l[2])>>

\* for_each_entries of the fast path
RECURSIVE SevenZFastLoop(_, _, _, _)
SevenZFastLoop(a, bad, i, io) ==
    IF i > Len(a) THEN Out(ArchiveErr("No images found in archive"), io, Len(a))
    ELSE LET io1 == ReadAt(io, 1)
         IN IF i = bad THEN Out(ArchiveErr("7z iteration error"), io1, i)
            ELSE IF is_image_file(a[i].name) THEN Out(ResEntry(a[i]), io1, i)
            ELSE SevenZFastLoop(a, bad, i + 1, io1)

SevenZFindFirstImage(b, a, bad, sort, io) ==
    IF ~sort
    THEN LET n == SevenZReaderNew(SevenZAcquire(b, io))
             o == SevenZFastLoop(a, bad, 1, n[1])
         IN IF ~n[2]
            THEN Out(ArchiveErr("Failed to create 7z reader"),
                     SevenZRelease(b, n[1]), 0)
            ELSE Out(o.res, SevenZRelease(b, o.io), o.seen)
    ELSE SortedFromListing(a, SevenZListEntries(b, a, bad, io), sort)

\* for_each_entries of extract_entry
RECURSIVE SevenZExtractLoop(_, _, _, _, _)
SevenZExtractLoop(a, bad, entry, i, io) ==
    IF i > Len(a) THEN Out(ArchiveErr("Entry not found"), io, Len(a))
    ELSE IF i = bad THEN Out(ArchiveErr("7z extraction error"), ReadAt(io, 0), i)
    ELSE IF a[i].name = entry.name
         THEN Out(ResData(a[i].size), ReadAt(Alloc(io), 1), i)
    ELSE SevenZExtractLoop(a, bad, entry, i + 1, ReadAt(io, 1))

SevenZExtractEntry(b, a, bad, entry, io) ==
    IF entry.size > MAX_ENTRY_SIZE THEN Out(ArchiveErr("Entry too large"), io, 0)
    ELSE LET n == SevenZReaderNew(SevenZAcquire(b, io))
             o == SevenZExtractLoop(a, bad, entry, 1, n[1])
         IN IF ~n[2]
            THEN Out(ArchiveErr("Failed to create 7z reader"),
                     SevenZRelease(b, n[1]), 0)
            ELSE Out(o.res, SevenZRelease(b, o.io), o.seen)

SevenZGetMetadata(b, a, bad, io) ==
    MetaFromListing(a, SevenZListEntries(b, a, bad, io))

(***************************************************************************)
(* The Archive trait: dispatch on the backend chosen at open time.         *)
(***************************************************************************)
Archive_find_first_image(b, a, bad, sort, io) ==
    IF IsZip(b) THEN ZipFindFirstImage(a, bad, sort, io)
    ELSE IF IsRar(b) THEN RarFindFirstImage(a, bad, sort, io)
    ELSE SevenZFindFirstImage(b, a, bad, sort, io)

Archive_extract_entry(b, a, bad, entry, io) ==
    IF IsZip(b) THEN ZipExtractEntry(a, bad, entry, io)
    ELSE IF IsRar(b) THEN RarExtractEntry(a, bad, entry, io)
    ELSE SevenZExtractEntry(b, a, bad, entry, io)

Archive_get_metadata(b, a, bad, io) ==
    IF IsZip(b) THEN ZipGetMetadata(a, bad, io)
    ELSE IF IsRar(b) THEN RarGetMetadata(a, bad, io)
    ELSE SevenZGetMetadata(b, a, bad, io)


(***************************************************************************)
(* CbxError -> HRESULT (utils/error.rs).                                   *)
(***************************************************************************)
ToHRESULT(err) ==
    CASE err.kind = "NoImageFound" -> "E_FAIL"
      [] err.kind = "InvalidPath" -> "E_INVALIDARG"
      [] OTHER -> "E_FAIL"

(***************************************************************************)
(* State.                                                                  *)
(***************************************************************************)
VARIABLES
    backend,    \* which of the six Archive implementations the handle is
    archive,    \* the entries of the container, in native enumeration order
    bad,        \* index of the entry whose header cannot be read, 0 if none
    pos,        \* position of the reader the handle keeps
    borrowed,   \* RefCell borrow flag of that reader
    last,       \* the last operation on the handle, what it did and returned
    prior,      \* how the operation before the last one ended
    rar,        \* RarArchiveFromMemory::new_from_stream and the handle's life
    dec,        \* one decode_image call
    det,        \* one detect_archive_type_from_bytes call
    call        \* one call of another function: its input and what it returned

archVars == <<backend, archive, bad, pos, borrowed, last, prior>>
vars == <<backend, archive, bad, pos, borrowed, last, prior, rar, dec, det, call>>

RarIdle == [pc |-> "none"]
DecIdle == [pc |-> "none"]
DetIdle == [pc |-> "none"]
CallIdle == [pc |-> "none"]

\* sequences without repetition over S, of length at most n
RECURSIVE InjSeqs(_, _)
InjSeqs(S, n) ==
    IF n = 0 THEN {<<>>}
    ELSE LET shorter == InjSeqs(S, n - 1)
         IN shorter \cup
            {Append(q, e) : <<q, e>> \in
                {<<q, e>> \in shorter \X S :
                    Len(q) = n - 1 /\ \A i \in 1..Len(q) : q[i] # e}}

Archives == InjSeqs(EntryUniverse, MaxEntries)

HandleArchives == InjSeqs(HandleUniverse, MaxHandleEntries)

\* where the reader stands when the constructor returns: ZipReader::new has
\* read the central directory at the end, SevenZipArchiveFromStream::new
\* seeks back to the start
InitialPos(b, a) == IF IsZip(b) THEN Len(a) + 1 ELSE 0

NoOp ==
    [op |-> "none", sort |-> FALSE, arg |-> NoEntry, res |-> ResData(0),
     log |-> <<>>, seen |-> 0, start |-> 0, hr |-> "S_OK"]

\* the borrow flag after the events of a log
RECURSIVE HeldAfter(_, _)
HeldAfter(log, held) ==
    IF log = <<>> THEN held
    ELSE HeldAfter(Tail(log),
                   IF Head(log) = "borrow" THEN TRUE
                   ELSE IF Head(log) = "release" THEN FALSE
                   ELSE held)

\* borrow_mut on a reader that is already borrowed panics
Panic ==
    [res |-> ResErr("Panic", "already mutably borrowed"),
     io |-> Io(<<>>, pos), seen |-> 0]

Guarded(o) == IF HasRefCell(backend) /\ borrowed THEN Panic ELSE o

Outcome(res) == IF res.ok THEN "ok" ELSE "failed"

\* the handle after an operation: the kept reader moved, the private
\* readers of the path-based backends are gone
Finish(name, sort, arg, o) ==
    /\ last' = [op |-> name, sort |-> sort, arg |-> arg, res |-> o.res,
                log |-> o.io.log, seen |-> o.seen, start |-> pos,
                hr |-> IF o.res.ok THEN "S_OK" ELSE ToHRESULT(o.res)]
    /\ pos' = IF HasRefCell(backend) THEN o.io.pos ELSE pos
    /\ borrowed' = HeldAfter(o.io.log, borrowed)
    /\ prior' = IF last.op = "none" THEN "none" ELSE Outcome(last.res)
    /\ UNCHANGED <<backend, archive, bad, rar, dec, det, call>>

Opened(archives) ==
    /\ backend \in Backends
    /\ archive \in archives
    /\ bad \in 0..Len(archive)
    \* RarArchive::open reads the first header and fails on an error
    /\ backend = "RarFile" => bad # 1
    /\ pos = InitialPos(backend, archive)
    /\ borrowed = FALSE
    /\ last = NoOp
    /\ prior = "none"
    /\ rar = RarIdle
    /\ dec = DecIdle
    /\ det = DetIdle
    /\ call = CallIdle

FindFirstImage(sort) ==
    Finish("find", sort, NoEntry,
           Guarded(Archive_find_first_image(backend, archive, bad, sort,
                                            Io(<<>>, pos))))

ExtractEntry(entry) ==
    Finish("extract", FALSE, entry,
           Guarded(Archive_extract_entry(backend, archive, bad, entry,
                                         Io(<<>>, pos))))

GetMetadata ==
    Finish("metadata", FALSE, NoEntry,
           Guarded(Archive_get_metadata(backend, archive, bad, Io(<<>>, pos))))


(***************************************************************************)
(* One thumbnail request (extract_thumbnail_internal, GetThumbnail): the   *)
(* request opens its own handle, finds the first image, extracts it,       *)
(* checks its magic bytes and builds the thumbnail; the first error is     *)
(* returned and converted to an HRESULT.  image says what the extracted    *)
(* bytes are.                                                              *)
(***************************************************************************)
ImageKinds == {"image", "wrong_magic", "undecodable"}

\* CbxError::Image(msg)
ImageErr(msg) == ResErr("Image", msg)

\* verify_image_data and create_thumbnail_with_size on the extracted bytes x
\* of the entry found by f
thumbnail_from_data(image, f, x) ==
    IF ~x.res.ok THEN Out(x.res, x.io, f.seen)
    ELSE IF image = "wrong_magic"
         THEN Out(ImageErr("appears to have wrong extension"), x.io, f.seen)
    ELSE IF image = "undecodable"
         THEN Out(ImageErr("Failed to decode image"), x.io, f.seen)
    ELSE Out(x.res, x.io, f.seen)

\* extract_entry on the entry found by f, on the same handle
thumbnail_from_entry(b, a, badIdx, image, f) ==
    IF ~f.res.ok THEN f
    ELSE thumbnail_from_data(image, f,
             Archive_extract_entry(b, a, badIdx, f.res.entry,
                                   Io(f.io.log, f.io.pos)))

extract_thumbnail_internal(b, a, badIdx, sort, image) ==
    thumbnail_from_entry(b, a, badIdx, image,
        Archive_find_first_image(b, a, badIdx, sort,
                                 Io(<<>>, InitialPos(b, a))))

GetThumbnail(sort, image) ==
    LET o == extract_thumbnail_internal(backend, archive, bad, sort, image)
    IN /\ last' = [op |-> "thumbnail", sort |-> sort, arg |-> NoEntry,
                   res |-> o.res, log |-> o.io.log, seen |-> o.seen,
                   start |-> InitialPos(backend, archive),
                   hr |-> IF o.res.ok THEN "S_OK" ELSE ToHRESULT(o.res)]
       /\ prior' = IF last.op = "none" THEN "none" ELSE Outcome(last.res)
       /\ UNCHANGED <<backend, archive, bad, pos, borrowed, rar, dec, det, call>>

\* entry selection on a freshly opened or already used handle
InitSelect == Opened(Archives)

NextSelect == \E sort \in BOOLEAN : FindFirstImage(sort)

SpecSelect == InitSelect /\ [][NextSelect]_vars

\* any sequence of operations on one handle, and thumbnail requests
InitHandle == Opened(HandleArchives)

NextHandle ==
    \/ \E sort \in BOOLEAN : FindFirstImage(sort)
    \/ \E entry \in CallerEntries : ExtractEntry(entry)
    \/ GetMetadata
    \/ \E sort \in BOOLEAN, image \in ImageKinds : GetThumbnail(sort, image)

SpecHandle == InitHandle /\ [][NextHandle]_vars


(***************************************************************************)
(* Properties of the archive handle.                                       *)
(***************************************************************************)
HandleOps == {"find", "extract", "metadata"}

\* indices the backend's enumeration yields: ZIP skips an entry whose header
\* cannot be read, the RAR and 7z iterations end at it
Enumerated ==
    IF IsZip(backend) THEN {j \in 1..Len(archive) : j # bad}
    ELSE {j \in 1..Len(archive) : bad = 0 \/ j < bad}

ImageIndices(idx) == {j \in idx : is_image_file(archive[j].name)}

MinOf(S) == CHOOSE i \in S : \A j \in S : i <= j

NamesOf(a) == {a[i].name : i \in 1..Len(a)}

\* C1: on each of the six backends extract_entry with entry.size above
\* 33,554,432 returns the too-large error without having opened, borrowed,
\* sought, read or allocated anything; a size of exactly 33,554,432 (or
\* less) gets past the guard and the operation goes on to the source.
C1_SizeGuardBeforeAnyAccess ==
    last.op = "extract" =>
        /\ last.arg.size > 33554432 =>
              /\ ~last.res.ok
              /\ last.res.msg = "Entry too large"
              /\ last.log = <<>>
              /\ pos = last.start
        /\ last.arg.size <= 33554432 =>
              /\ last.res.msg # "Entry too large"
              /\ last.log # <<>>

C1_Witness ==
    /\ last.op = "extract"
    /\ last.arg.size = 33554433
    /\ last.arg \in {archive[i] : i \in 1..Len(archive)}
    /\ ~last.res.ok

\* C3: find_first_image(true), when it returns an entry, returns an entry of
\* the archive that passes the image filter and that no other enumerated
\* image entry precedes in the natural order, with that entry's size and
\* is_directory; it does return one when every header is readable and an
\* image exists; page2.jpg wins over page10.jpg, and page1.jpg, page2.jpg,
\* page10.jpg, readme.txt in any order give page1.jpg.
C3_SortedReturnsNaturalLeast ==
    (last.op = "find" /\ last.sort) =>
        /\ last.res.ok =>
              /\ \E i \in Enumerated : archive[i] = last.res.entry
              /\ is_image_file(last.res.entry.name)
              /\ \A j \in ImageIndices(Enumerated) :
                    natural_sort_cmp(archive[j].name, last.res.entry.name) # "Less"
        /\ (bad = 0 /\ ImageIndices(1..Len(archive)) # {}) => last.res.ok
        /\ (bad = 0 /\ Page2 \in NamesOf(archive) /\ Page10 \in NamesOf(archive)
                /\ Page1 \notin NamesOf(archive))
              => last.res.entry.name = Page2
        /\ (bad = 0 /\ NamesOf(archive) = {Page1, Page2, Page10, Readme})
              => last.res.entry = ArchiveEntry(Page1, 7, FALSE)

C3_Witness ==
    /\ last.op = "find" /\ last.sort /\ last.res.ok
    /\ bad = 0
    /\ Len(archive) = 4
    /\ NamesOf(archive) = {Page1, Page2, Page10, Readme}
    /\ archive[1].name = Page10
    /\ archive[4].name = Page1
    /\ last.res.entry.name = Page1

\* C4: find_first_image(false) returns the first enumerated entry whose name
\* passes the image filter and has inspected no entry after it; when no
\* enumerated entry passes the filter it returns an error.
C4_UnsortedReturnsFirstAndStops ==
    (last.op = "find" /\ ~last.sort) =>
        LET hits == ImageIndices(Enumerated)
        IN /\ hits # {} =>
                 /\ last.res.ok
                 /\ last.res.entry = archive[MinOf(hits)]
                 /\ last.seen = MinOf(hits)
           /\ hits = {} => ~last.res.ok

C4_Witness ==
    /\ last.op = "find" /\ ~last.sort /\ last.res.ok
    /\ last.seen = 2
    /\ Len(archive) = 4
    /\ ~is_image_file(archive[1].name)
    /\ is_image_file(archive[3].name)
    /\ last.res.entry = archive[2]

\* C5 (as claimed): with exactly one entry passing the image filter, its own
\* header readable, sorted and unsorted find_first_image give the same
\* outcome, the same entry, whatever the other entries are, an entry with an
\* unreadable header included.
C5_SortedEqualsUnsortedForOneImage ==
    LET images == ImageIndices(1..Len(archive))
    IN (last.op = "find" /\ Cardinality(images) = 1 /\ bad \notin images) =>
          LET other == Guarded(Archive_find_first_image(backend, archive, bad,
                                   ~last.sort, Io(<<>>, pos))).res
          IN /\ other.ok = last.res.ok
             /\ other.entry = last.res.entry


\* the error values built at the other failure sites: unreadable entry,
\* oversize entry, entry not found, corrupt container, wrong magic bytes,
\* decode failure
OtherFailures ==
    { ArchiveErr("Failed to get entry"), ArchiveErr("RAR entry error"),
      ArchiveErr("7z iteration error"), ArchiveErr("Entry too large"),
      ArchiveErr("Entry not found"), ArchiveErr("Invalid ZIP archive"),
      ImageErr("appears to have wrong extension"),
      ImageErr("Failed to decode image") }

\* the archive opened correctly, every header is readable, no entry is an image
NoImageInArchive == bad = 0 /\ ImageIndices(1..Len(archive)) = {}

\* C6 (as claimed): the failure reported for an archive without any image
\* (by find_first_image, and as GetThumbnail's status) has an error kind and
\* a status that no corruption or transient failure has.
C6_NoImageDistinguishable ==
    (last.op \in {"find", "thumbnail"} /\ NoImageInArchive /\ ~last.res.ok) =>
        \A f \in OtherFailures :
            /\ f.kind # last.res.kind
            /\ ToHRESULT(f) # last.hr

\* every seek and read of the log happens while the reader is borrowed, no
\* borrow is taken while one is held, and none is left at the end
RECURSIVE Exclusive(_, _)
Exclusive(log, held) ==
    IF log = <<>> THEN ~held
    ELSE CASE Head(log) = "borrow" -> ~held /\ Exclusive(Tail(log), TRUE)
           [] Head(log) = "release" -> held /\ Exclusive(Tail(log), FALSE)
           [] Head(log) \in {"seek", "read"} -> held /\ Exclusive(Tail(log), held)
           [] OTHER -> Exclusive(Tail(log), held)

FreshResult ==
    LET io == Io(<<>>, InitialPos(backend, archive))
    IN CASE last.op = "find" ->
                Archive_find_first_image(backend, archive, bad, last.sort, io).res
         [] last.op = "extract" ->
                Archive_extract_entry(backend, archive, bad, last.arg, io).res
         [] last.op = "metadata" ->
                Archive_get_metadata(backend, archive, bad, io).res

\* C8: whatever operations ran on the handle before, also failed ones that
\* left the reader in the middle of the source, an operation returns what
\* the same call returns on a freshly opened handle.
C8_ResultIndependentOfHistory ==
    last.op \in HandleOps => last.res = FreshResult

C8_Witness ==
    /\ backend = "SevenZStream"
    /\ last.op = "find"
    /\ prior = "failed"
    /\ last.start \notin {0, InitialPos(backend, archive)}
    /\ last.res.ok


(***************************************************************************)
(* RarArchiveFromMemory: the staging file.  new_from_stream creates the    *)
(* file, copies the stream into it chunk by chunk, syncs it and validates  *)
(* it with open_for_listing; the handle then serves operations until it is *)
(* dropped.  rar.temp says whether the file is on disk.                    *)
(***************************************************************************)
RarKinds == {"valid", "password", "invalid"}

RarState(pc, temp, left, kind, err) ==
    [pc |-> pc, temp |-> temp, left |-> left, kind |-> kind, err |-> err]

StagedArchives == InjSeqs(HandleUniverse, MaxStagedEntries)

InitRar ==
    /\ backend \in {"RarFile", "RarStream"}
    /\ \E kind \in RarKinds, chunks \in 0..MaxChunks :
          /\ backend = "RarFile" => chunks = 0
          /\ rar = RarState("start", FALSE, chunks, kind, "")
          /\ archive \in (IF kind = "valid" THEN StagedArchives ELSE {<<>>})
    /\ bad \in 0..Len(archive)
    /\ pos = 0
    /\ borrowed = FALSE
    /\ last = NoOp
    /\ prior = "none"
    /\ dec = DecIdle
    /\ det = DetIdle
    /\ call = CallIdle

Failed(err) == [rar EXCEPT !.pc = "failed", !.err = err]

\* RarArchive::open: open_for_listing on the path, then the first header
RarOpen ==
    /\ rar.pc = "start"
    /\ backend = "RarFile"
    /\ rar' = IF rar.kind # "valid" THEN Failed("Failed to open RAR archive")
              ELSE IF bad = 1 THEN Failed("RAR listing error")
              ELSE [rar EXCEPT !.pc = "open"]
    /\ UNCHANGED <<archVars, dec, det, call>>

\* File::create(&temp_path)
RarCreateTemp ==
    /\ rar.pc = "start"
    /\ backend = "RarStream"
    /\ \/ rar' = [rar EXCEPT !.pc = "copy", !.temp = TRUE]
       \/ rar' = Failed("Failed to create temp RAR file")
    /\ UNCHANGED <<archVars, dec, det, call>>

\* one turn of the copy loop: reader.read, then write_all or the end of input
RarCopyChunk ==
    /\ rar.pc = "copy"
    /\ \/ rar' = Failed("Failed to read from stream")
       \/ /\ rar.left > 0
          /\ rar' = Failed("Failed to write to temp file")
       \/ /\ rar.left > 0
          /\ rar' = [rar EXCEPT !.left = rar.left - 1]
       \/ /\ rar.left = 0
          /\ rar' = [rar EXCEPT !.pc = "sync"]
    /\ UNCHANGED <<archVars, dec, det, call>>

\* file.sync_all() and drop(file)
RarSync ==
    /\ rar.pc = "sync"
    /\ \/ rar' = [rar EXCEPT !.pc = "validate"]
       \/ rar' = Failed("Failed to sync temp RAR file")
    /\ UNCHANGED <<archVars, dec, det, call>>

\* the error open_for_listing gives for the container, as its Debug text:
\* whether the text for a missing password holds one of the words the code
\* looks for is the unrar library's choice
UnrarErrors(kind) ==
    IF kind = "password" THEN {"BadPassword", "MissingPassword"} ELSE {"BadArchive"}

\* error_msg.contains("password") || .contains("encrypted") || .contains("BadPassword")
MentionsPassword(error_msg) == error_msg = "BadPassword"

\* open_for_listing on the staging file; its error branch removes the file
RarValidate ==
    /\ rar.pc = "validate"
    /\ \/ /\ rar.kind = "valid"
          /\ rar' = [rar EXCEPT !.pc = "open"]
       \/ /\ rar.kind # "valid"
          /\ \E e \in UnrarErrors(rar.kind) :
                rar' = [rar EXCEPT !.pc = "failed", !.temp = FALSE,
                           !.err = IF MentionsPassword(e)
                                   THEN "Password-protected RAR archive (not supported)"
                                   ELSE "Invalid RAR data"]
    /\ UNCHANGED <<archVars, dec, det, call>>

\* impl Drop for RarArchiveFromMemory
RarDrop ==
    /\ rar.pc = "open"
    /\ rar' = [rar EXCEPT !.pc = "dropped", !.temp = FALSE]
    /\ UNCHANGED <<archVars, dec, det, call>>

\* the operations of the live handle
RarHandleOp ==
    /\ rar.pc = "open"
    /\ \/ \E sort \in BOOLEAN : FindFirstImage(sort)
       \/ \E entry \in CallerEntries : ExtractEntry(entry)
       \/ GetMetadata

NextRar ==
    \/ RarOpen
    \/ RarCreateTemp
    \/ RarCopyChunk
    \/ RarSync
    \/ RarValidate
    \/ RarHandleOp
    \/ RarDrop

SpecRar == InitRar /\ [][NextRar]_vars

\* C2 (as claimed): once new_from_stream has returned an error or the handle
\* has been dropped, the staging file is not on disk.
C2_TempFileRemovedOnEveryExit ==
    rar.pc \in {"failed", "dropped"} => ~rar.temp


(***************************************************************************)
(* decode_image: the WIC tier, then the image crate.  What the platform    *)
(* codec does with the bytes is an input: wicFail names the WIC call that  *)
(* fails ("none": all succeed), wicSize the size the frame reports.        *)
(***************************************************************************)
I32_MAX == 2147483647

\* u32::MAX / y for y >= 2, computed within 32-bit signed arithmetic:
\* u32::MAX = 2 * i32::MAX + 1
U32MaxDiv(y) == 2 * (I32_MAX \div y) + ((2 * (I32_MAX % y) + 1) \div y)

WicCalls ==
    {"none", "CoCreateInstance", "CreateStream", "InitializeFromMemory",
     "CreateDecoderFromStream", "GetFrame", "GetSize", "CreateFormatConverter",
     "Initialize", "CopyPixels"}

WicSizes == {<<0, 5>>, <<3, 2>>, <<1073741824, 1>>, <<65536, 65536>>}

Targets == {"windows", "other"}

\* u32::checked_mul: -1 stands for None
CheckedMul(x, y) ==
    IF x = 0 \/ y = 0 THEN 0
    ELSE IF y = 1 THEN x
    ELSE IF x > U32MaxDiv(y) THEN -1
    ELSE x * y

WicNone == [tag |-> "None", msg |-> "", width |-> 0, height |-> 0]
WicErr(msg) == [tag |-> "Err", msg |-> msg, width |-> 0, height |-> 0]
WicSome(w, h) == [tag |-> "Some", msg |-> "", width |-> w, height |-> h]

\* try_decode_with_wic: Result<Option<DynamicImage>>
try_decode_with_wic(target, wicFail, size) ==
    LET stride == CheckedMul(size[1], 4)
    IN IF target # "windows" THEN WicNone
       ELSE IF wicFail = "CoCreateInstance" THEN WicNone
       ELSE IF wicFail = "CreateStream" THEN WicErr("WIC stream creation failed")
       ELSE IF wicFail = "InitializeFromMemory"
            THEN WicErr("WIC stream initialization failed")
       ELSE IF wicFail = "CreateDecoderFromStream" THEN WicNone
       ELSE IF wicFail = "GetFrame" THEN WicNone
       ELSE IF wicFail = "GetSize" THEN WicErr("WIC failed to read image size")
       ELSE IF size[1] = 0 \/ size[2] = 0 THEN WicErr("WIC decoded invalid image size")
       ELSE IF wicFail = "CreateFormatConverter"
            THEN WicErr("WIC format converter creation failed")
       ELSE IF wicFail = "Initialize" THEN WicErr("WIC format conversion setup failed")
       ELSE IF stride = -1 THEN WicErr("Image stride overflow while decoding with WIC")
       ELSE IF CheckedMul(stride, size[2]) = -1
            THEN WicErr("Image buffer overflow while decoding with WIC")
       ELSE IF wicFail = "CopyPixels" THEN WicErr("WIC pixel copy failed")
       ELSE WicSome(size[1], size[2])

\* Result<DynamicImage>, and which tiers ran
Decoded(ok, by, msg, wic, generic) ==
    [ok |-> ok, by |-> by, msg |-> msg, wicTried |-> wic, genericTried |-> generic]

\* decode_with_image_crate: genericOk says whether the crate decodes the bytes
decode_with_image_crate(genericOk, wic) ==
    IF genericOk THEN Decoded(TRUE, "image", "", wic, TRUE)
    ELSE Decoded(FALSE, "", "Failed to decode image", wic, TRUE)

decode_image(empty, target, wicFail, size, genericOk) ==
    LET w == try_decode_with_wic(target, wicFail, size)
    IN IF empty THEN Decoded(FALSE, "", "Empty image data", FALSE, FALSE)
       ELSE IF w.tag = "Err" THEN Decoded(FALSE, "", w.msg, TRUE, FALSE)
       ELSE IF w.tag = "Some" THEN Decoded(TRUE, "wic", "", TRUE, FALSE)
       ELSE decode_with_image_crate(genericOk, TRUE)

InitDecode ==
    /\ \E empty \in BOOLEAN, target \in Targets, wicFail \in WicCalls,
          size \in WicSizes, genericOk \in BOOLEAN :
          dec = [pc |-> "call", empty |-> empty, target |-> target,
                 wicFail |-> wicFail, size |-> size, genericOk |-> genericOk,
                 res |-> Decoded(FALSE, "", "", FALSE, FALSE)]
    /\ backend = "ZipFile"
    /\ archive = <<>>
    /\ bad = 0
    /\ pos = 0
    /\ borrowed = FALSE
    /\ last = NoOp
    /\ prior = "none"
    /\ rar = RarIdle
    /\ det = DetIdle
    /\ call = CallIdle

DecodeImage ==
    /\ dec.pc = "call"
    /\ dec' = [dec EXCEPT !.pc = "done",
                          !.res = decode_image(dec.empty, dec.target, dec.wicFail,
                                               dec.size, dec.genericOk)]
    /\ UNCHANGED <<archVars, rar, det, call>>

NextDecode == DecodeImage

SpecDecode == InitDecode /\ [][NextDecode]_vars

\* the platform tier did not produce an image
WicTierFailed ==
    \/ dec.target # "windows"
    \/ dec.wicFail # "none"
    \/ dec.size[1] = 0 \/ dec.size[2] = 0
    \/ dec.size[1] >= 1073741824
    \/ dec.size[1] * 4 > U32MaxDiv(dec.size[2])

\* C9 (as claimed): on non-empty input, whenever the platform tier fails at
\* any step the generic decoder is attempted and decode_image returns its
\* result; empty input is rejected with neither tier attempted.
C9_WicFailureFallsBackToGeneric ==
    dec.pc = "done" =>
        /\ (~dec.empty /\ WicTierFailed) =>
              /\ dec.res.genericTried
              /\ dec.res.ok = dec.genericOk
              /\ dec.res.ok => dec.res.by = "image"
              /\ ~dec.res.ok => dec.res.msg = "Failed to decode image"
        /\ dec.empty =>
              /\ ~dec.res.ok
              /\ ~dec.res.wicTried
              /\ ~dec.res.genericTried

----------------------------------------------------------------------------
\* Archive type detection from magic bytes (archive/stream_reader.rs)

ZipLocalMagic == <<80, 75, 3, 4>>
ZipEndMagic == <<80, 75, 5, 6>>
ZipSpanMagic == <<80, 75, 7, 8>>
SevenZMagic == <<55, 122, 188, 175, 39, 28>>
Rar4Magic == <<82, 97, 114, 33, 26, 7, 0>>
Rar5Magic == <<82, 97, 114, 33, 26, 7, 1, 0>>

\* &data[0..n]
Slice(data, n) == SubSeq(data, 1, n)

DetOk(t) == [ok |-> TRUE, type |-> t, err |-> "", msg |-> ""]
DetErr(msg) == [ok |-> FALSE, type |-> "", err |-> "UnsupportedFormat", msg |-> msg]

\* the magic checks of detect_archive_type_from_bytes, after the length check
MatchMagic(data) ==
    IF Len(data) >= 4 /\ Slice(data, 4) \in {ZipLocalMagic, ZipEndMagic, ZipSpanMagic}
    THEN DetOk("Zip")
    ELSE IF Len(data) >= 6 /\ Slice(data, 6) = SevenZMagic THEN DetOk("SevenZip")
    ELSE IF Len(data) >= 7 /\ Slice(data, 7) = Rar4Magic THEN DetOk("Rar")
    ELSE IF Len(data) >= 8 /\ Slice(data, 8) = Rar5Magic THEN DetOk("Rar")
    ELSE DetErr("Unrecognized archive format")

\* detect_archive_type_from_bytes without the minimum-length check
detect_archive_type_from_bytes_NoLengthCheck(data) ==
    MatchMagic(data)

detect_archive_type_from_bytes(data) ==
    IF Len(data) < 8 THEN DetErr("Data too short")
    ELSE MatchMagic(data)

Magics == {ZipLocalMagic, ZipEndMagic, ZipSpanMagic, SevenZMagic, Rar4Magic, Rar5Magic}

FillerBytes == {0, 255}
PatchBytes == {0, 1, 80}

\* sig followed by filler bytes, n bytes in all
Padded(sig, fill, n) ==
    [i \in 1..n |-> IF i <= Len(sig) THEN sig[i] ELSE fill]

\* the byte strings handed to the detector: a signature (or none) followed
\* by filler, possibly with one byte overwritten, cut to any length
Prefixes ==
    LET Whole == {Padded(sig, fill, MaxPrefixLen) :
                      sig \in Magics \cup {<<>>}, fill \in FillerBytes}
        Patched == {[w EXCEPT ![i] = b] :
                      w \in Whole, i \in 1..MaxPrefixLen, b \in PatchBytes}
    IN {Slice(w, n) : w \in Whole \cup Patched, n \in 0..MaxPrefixLen}

InitDetect ==
    /\ \E data \in Prefixes :
          det = [pc |-> "call", data |-> data, res |-> DetErr("")]
    /\ backend = "ZipFile"
    /\ archive = <<>>
    /\ bad = 0
    /\ pos = 0
    /\ borrowed = FALSE
    /\ last = NoOp
    /\ prior = "none"
    /\ rar = RarIdle
    /\ dec = DecIdle
    /\ call = CallIdle

Detect ==
    /\ det.pc = "call"
    /\ det' = [det EXCEPT !.pc = "done",
                          !.res = detect_archive_type_from_bytes(det.data)]
    /\ UNCHANGED <<archVars, rar, dec, call>>

NextDetect == Detect

SpecDetect == InitDetect /\ [][NextDetect]_vars

\* C10: an input shorter than 8 bytes fails with UnsupportedFormat whatever
\* it starts with; otherwise the result is Zip iff bytes 0..4 are one of the
\* three PK signatures, SevenZip iff bytes 0..6 are 37 7A BC AF 27 1C, Rar
\* iff bytes 0..7 are 52 61 72 21 1A 07 00 or bytes 0..8 are
\* 52 61 72 21 1A 07 01 00, and UnsupportedFormat for every other prefix;
\* bytes after the first eight do not change the result.
C10_DetectByMagicPrefix ==
    det.pc = "done" =>
        LET d == det.data
            r == det.res
            zip == SubSeq(d, 1, 4) \in {<<80, 75, 3, 4>>, <<80, 75, 5, 6>>,
                                        <<80, 75, 7, 8>>}
            sevenz == SubSeq(d, 1, 6) = <<55, 122, 188, 175, 39, 28>>
            rar_ == \/ SubSeq(d, 1, 7) = <<82, 97, 114, 33, 26, 7, 0>>
                    \/ SubSeq(d, 1, 8) = <<82, 97, 114, 33, 26, 7, 1, 0>>
        IN IF Len(d) < 8
           THEN ~r.ok /\ r.err = "UnsupportedFormat"
           ELSE /\ (r.ok /\ r.type = "Zip") <=> zip
                /\ (r.ok /\ r.type = "SevenZip") <=> sevenz
                /\ (r.ok /\ r.type = "Rar") <=> rar_
                /\ (~r.ok /\ r.err = "UnsupportedFormat") <=> ~(zip \/ sevenz \/ rar_)
                /\ r.ok => r.type \in {"Zip", "SevenZip", "Rar"}
                /\ r = detect_archive_type_from_bytes(SubSeq(d, 1, 8))

\* the complete 7-byte RAR 4.x signature alone has been rejected as too short
C10_Witness ==
    /\ det.pc = "done"
    /\ det.data = <<82, 97, 114, 33, 26, 7, 0>>
    /\ ~det.res.ok
    /\ det.res.err = "UnsupportedFormat"

----------------------------------------------------------------------------
\* Functions modelled as one call: call holds the input, then the result.

\* everything but call is idle
OnlyCall ==
    /\ backend = "ZipFile"
    /\ archive = <<>>
    /\ bad = 0
    /\ pos = 0
    /\ borrowed = FALSE
    /\ last = NoOp
    /\ prior = "none"
    /\ rar = RarIdle
    /\ dec = DecIdle
    /\ det = DetIdle

----------------------------------------------------------------------------
\* Image format detection from magic bytes (image_processor/magic.rs)

MaxImageLen == 24

\* data[k], k counted from 0
Byte(data, k) == data[k + 1]

\* &data[from..to]
Range(data, from, to) == SubSeq(data, from + 1, to)

FtypTag == <<102, 116, 121, 112>>
AvifBrands == {<<97, 118, 105, 102>>, <<97, 118, 105, 115>>}
FtypAvif == {<<102, 116, 121, 112, 97, 118, 105, 102>>,
             <<102, 116, 121, 112, 97, 118, 105, 115>>}

PARSE_CEILING == 4096
SCAN_CEILING == 64

\* stands for every box size of 65536 or more: sizes are only compared with
\* quantities that parse_limit (at most 4096) bounds
HugeSize == 65536

\* u32::from_be_bytes of the four bytes at k
U32BE(data, k) ==
    IF Byte(data, k) # 0 \/ Byte(data, k + 1) # 0 THEN HugeSize
    ELSE Byte(data, k + 2) * 256 + Byte(data, k + 3)

\* u64::from_be_bytes of the eight bytes at k
U64BE(data, k) ==
    IF \E n \in 0..5 : Byte(data, k + n) # 0 THEN HugeSize
    ELSE Byte(data, k + 6) * 256 + Byte(data, k + 7)

Min(x, y) == IF x <= y THEN x ELSE y

\* the loop over the compatible brands of the ftyp box
RECURSIVE BrandLoop(_, _, _)
BrandLoop(data, brand_offset, box_end) ==
    IF brand_offset + 4 > box_end THEN FALSE
    ELSE IF Range(data, brand_offset, brand_offset + 4) \in AvifBrands THEN TRUE
    ELSE BrandLoop(data, brand_offset + 4, box_end)

\* the ISO-BMFF box walk: TRUE when it returns Ok(Avif), FALSE when it ends
RECURSIVE BoxWalk(_, _, _)

\* the box at cursor has a header of header_size bytes and ends at box_end
BoxBody(data, cursor, limit, box_type, header_size, box_end) ==
    IF box_type = FtypTag
    THEN IF cursor + header_size + 4 > box_end THEN FALSE
         ELSE IF Range(data, cursor + header_size, cursor + header_size + 4)
                    \in AvifBrands
              THEN TRUE
         ELSE IF cursor + header_size + 8 <= box_end
              THEN BrandLoop(data, cursor + header_size + 8, box_end)
         ELSE FALSE
    ELSE BoxWalk(data, box_end, limit)

\* size == 1: the 64-bit size follows the type
LargeBox(data, cursor, limit, box_type, large_size) ==
    IF large_size < 16 THEN FALSE
    ELSE IF cursor + large_size > limit THEN FALSE
    ELSE BoxBody(data, cursor, limit, box_type, 16, cursor + large_size)

BoxAt(data, cursor, limit, size, box_type) ==
    IF size = 1
    THEN IF cursor + 16 > limit THEN FALSE
         ELSE LargeBox(data, cursor, limit, box_type, U64BE(data, cursor + 8))
    ELSE IF size < 8 THEN FALSE
    ELSE IF cursor + size > limit THEN FALSE
    ELSE BoxBody(data, cursor, limit, box_type, 8, cursor + size)

BoxWalk(data, cursor, limit) ==
    IF cursor + 8 > limit THEN FALSE
    ELSE BoxAt(data, cursor, limit, U32BE(data, cursor),
               Range(data, cursor + 4, cursor + 8))

\* the raw scan of the leading bytes for ftypavif / ftypavis
RawScan(data, scan_limit) ==
    \E i \in 0..(scan_limit - 8) : Range(data, i, i + 8) \in FtypAvif

\* the three AVIF tests, in the order of the code
IsAvif(data) ==
    \/ /\ Len(data) >= 12
       /\ Range(data, 4, 8) = FtypTag
       /\ Range(data, 8, 12) \in AvifBrands
    \/ /\ Len(data) >= 16
       /\ \/ BoxWalk(data, 0, Min(Len(data), PARSE_CEILING))
          \/ RawScan(data, Min(Min(Len(data), PARSE_CEILING), SCAN_CEILING))

\* the signature tests before AVIF, in the order of the code; "none" when
\* no one matches
FixedSignature(data) ==
    IF Len(data) >= 3 /\ Slice(data, 3) = <<255, 216, 255>> THEN "Jpeg"
    ELSE IF Len(data) >= 8 /\ Slice(data, 8) = <<137, 80, 78, 71, 13, 10, 26, 10>>
         THEN "Png"
    ELSE IF Len(data) >= 4 /\ Slice(data, 4) = <<71, 73, 70, 56>> THEN "Gif"
    ELSE IF Len(data) >= 2 /\ Slice(data, 2) = <<66, 77>> THEN "Bmp"
    ELSE IF Len(data) >= 4 /\ Slice(data, 4) \in {<<73, 73, 42, 0>>, <<77, 77, 0, 42>>}
         THEN "Tiff"
    ELSE IF Len(data) >= 4 /\ Slice(data, 4) = <<0, 0, 1, 0>> THEN "Ico"
    ELSE IF Len(data) >= 12 /\ Slice(data, 4) = <<82, 73, 70, 70>>
                            /\ Range(data, 8, 12) = <<87, 69, 66, 80>>
         THEN "WebP"
    ELSE "none"

FormatOk(f) == [ok |-> TRUE, format |-> f, kind |-> "", msg |-> ""]
FormatErr(msg) == [ok |-> FALSE, format |-> "", kind |-> "Image", msg |-> msg]

\* detect_image_format with the AVIF tests moved to the front
detect_image_format_AvifFirst(data) ==
    IF data = <<>> THEN FormatErr("Empty data")
    ELSE IF Len(data) < 4 THEN FormatErr("Insufficient data for format detection")
    ELSE IF IsAvif(data) THEN FormatOk("Avif")
    ELSE IF FixedSignature(data) # "none" THEN FormatOk(FixedSignature(data))
    ELSE FormatErr("Unrecognized image format")

detect_image_format(data) ==
    IF data = <<>> THEN FormatErr("Empty data")
    ELSE IF Len(data) < 4 THEN FormatErr("Insufficient data for format detection")
    ELSE IF FixedSignature(data) # "none" THEN FormatOk(FixedSignature(data))
    ELSE IF IsAvif(data) THEN FormatOk("Avif")
    ELSE FormatErr("Unrecognized image format")

\* magic::verify_image_format
verify_image_format(data) == detect_image_format(data)

verify_image_data_AcceptAll(data) == FormatOk("")

\* utils::verify_image_data: Ok(()) or the wrong-extension error
verify_image_data(data) ==
    IF verify_image_format(data).ok THEN FormatOk("")
    ELSE FormatErr("appears to have wrong extension (not a valid image)")

\* byte strings that begin like an image of some format, or like several
ImageHeads ==
    { <<>>,
      <<255, 216, 255, 224>>,
      <<137, 80, 78, 71, 13, 10, 26, 10>>,
      <<71, 73, 70, 56>>,
      <<66, 77>>,
      <<73, 73, 42, 0>>,
      <<77, 77, 0, 42>>,
      <<0, 0, 1, 0>>,
      <<82, 73, 70, 70, 0, 0, 0, 0, 87, 69, 66, 80>>,
      \* ftyp box with major brand avif
      <<0, 0, 0, 24, 102, 116, 121, 112, 97, 118, 105, 102,
        0, 0, 0, 0, 109, 105, 102, 49, 109, 105, 97, 102>>,
      \* ftyp box with major brand mif1 and compatible brand avis
      <<0, 0, 0, 24, 102, 116, 121, 112, 109, 105, 102, 49,
        0, 0, 0, 0, 109, 105, 102, 49, 97, 118, 105, 115>>,
      \* ftyp box with a 64-bit size
      <<0, 0, 0, 1, 102, 116, 121, 112, 0, 0, 0, 0, 0, 0, 0, 24,
        97, 118, 105, 102, 0, 0, 0, 0>>,
      \* ftyp box behind a free box
      <<0, 0, 0, 8, 102, 114, 101, 101,
        0, 0, 0, 16, 102, 116, 121, 112, 97, 118, 105, 115, 0, 0, 0, 0>>,
      \* no box structure, ftypavif among the leading bytes
      <<0, 0, 0, 0, 1, 1, 102, 116, 121, 112, 97, 118, 105, 102>>,
      \* other signatures followed by ftyp avif
      <<255, 216, 255, 224, 102, 116, 121, 112, 97, 118, 105, 102>>,
      <<66, 77, 0, 0, 102, 116, 121, 112, 97, 118, 105, 102>>,
      <<0, 0, 1, 0, 102, 116, 121, 112, 97, 118, 105, 102>>,
      <<82, 73, 70, 70, 0, 0, 0, 0, 87, 69, 66, 80,
        102, 116, 121, 112, 97, 118, 105, 102>> }

ImagePatchBytes == {0, 1, 255}

\* a head followed by zero bytes, possibly with one byte overwritten, cut to
\* any length
ImageInputs ==
    LET Whole == {Padded(h, 0, MaxImageLen) :
                     h \in {Slice(g, Min(Len(g), MaxImageLen)) : g \in ImageHeads}}
        Patched == {[w EXCEPT ![i] = b] :
                      w \in Whole, i \in 1..MaxImageLen, b \in ImagePatchBytes}
    IN {Slice(w, n) : w \in Whole \cup Patched, n \in 0..MaxImageLen}

InitImageFormat ==
    /\ OnlyCall
    /\ \E data \in ImageInputs :
          call = [pc |-> "call", fn |-> "detect_image_format", data |-> data,
                  res |-> FormatErr(""), verified |-> FormatErr("")]

DetectImageFormat ==
    /\ call.pc = "call"
    /\ call.fn = "detect_image_format"
    /\ call' = [call EXCEPT !.pc = "done",
                            !.res = detect_image_format(call.data),
                            !.verified = verify_image_data(call.data)]
    /\ UNCHANGED <<archVars, rar, dec, det>>

NextImageFormat == DetectImageFormat

SpecImageFormat == InitImageFormat /\ [][NextImageFormat]_vars

\* C11: detect_image_format returns for every input; an input shorter than
\* 4 bytes gets an Image error; a longer one gets the format of the first
\* signature it matches in the order JPEG, PNG, GIF, BMP, TIFF, ICO, WebP,
\* AVIF, and an Image error when it matches none; verify_image_data
\* succeeds exactly when detect_image_format does.
C11_FirstMatchingSignature ==
    (call.pc = "done" /\ call.fn = "detect_image_format") =>
        LET d == call.data
            r == call.res
            n == Len(d)
            first ==
                IF n >= 3 /\ SubSeq(d, 1, 3) = <<255, 216, 255>> THEN "Jpeg"
                ELSE IF n >= 8 /\ SubSeq(d, 1, 8) = <<137, 80, 78, 71, 13, 10, 26, 10>>
                     THEN "Png"
                ELSE IF SubSeq(d, 1, 4) = <<71, 73, 70, 56>> THEN "Gif"
                ELSE IF SubSeq(d, 1, 2) = <<66, 77>> THEN "Bmp"
                ELSE IF SubSeq(d, 1, 4) = <<73, 73, 42, 0>> THEN "Tiff"
                ELSE IF SubSeq(d, 1, 4) = <<77, 77, 0, 42>> THEN "Tiff"
                ELSE IF SubSeq(d, 1, 4) = <<0, 0, 1, 0>> THEN "Ico"
                ELSE IF n >= 12 /\ SubSeq(d, 1, 4) = <<82, 73, 70, 70>>
                                /\ SubSeq(d, 9, 12) = <<87, 69, 66, 80>>
                     THEN "WebP"
                ELSE IF IsAvif(d) THEN "Avif"
                ELSE "none"
        IN /\ r.ok \/ r.kind = "Image"
           /\ n < 4 => ~r.ok
           /\ (n >= 4 /\ first # "none") => (r.ok /\ r.format = first)
           /\ (n >= 4 /\ first = "none") => ~r.ok
           /\ call.verified.ok <=> r.ok
           /\ call.verified.ok \/ call.verified.kind = "Image"

\* a buffer that starts with the JPEG signature and carries ftyp avif at
\* offset 4 has been classified as JPEG
C11_Witness ==
    /\ call.pc = "done"
    /\ call.fn = "detect_image_format"
    /\ Len(call.data) >= 12
    /\ SubSeq(call.data, 1, 3) = <<255, 216, 255>>
    /\ SubSeq(call.data, 5, 12) = <<102, 116, 121, 112, 97, 118, 105, 102>>
    /\ call.res.ok
    /\ call.res.format = "Jpeg"
    /\ call.verified.ok

----------------------------------------------------------------------------
\* Opening a RAR container that cannot be listed (archive/rar.rs)

\* the CbxError RarArchive::open or new_from_stream returned: every error
\* either of them builds is CbxError::Archive
RarOpenError == ArchiveErr(rar.err)

\* the errors of the open_for_listing step
ListingErrors ==
    {"Failed to open RAR archive", "Invalid RAR data",
     "Password-protected RAR archive (not supported)"}

\* C12 (as claimed): when opening a password-protected RAR container fails,
\* by path or by stream, the error has the kind PasswordProtected, which is
\* not the kind reported for a corrupt container.
C12_PasswordProtectedIsDistinctKind ==
    (rar.pc = "failed" /\ rar.kind = "password" /\ rar.err \in ListingErrors) =>
        /\ RarOpenError.kind = "PasswordProtected"
        /\ RarOpenError.kind # ArchiveErr("Invalid RAR data").kind
        /\ RarOpenError.kind # ArchiveErr("Failed to open RAR archive").kind

----------------------------------------------------------------------------
\* Sorted selection on an archive without entries or without images

\* C13 (as claimed): find_first_image(true) on an archive whose listing is
\* empty fails with an error of kind ArchiveEmpty, on an archive that has
\* entries none of which passes the image filter it fails with an error of
\* kind NoImageFound, and the two kinds differ.
C13_EmptyAndNoImageAreDistinctKinds ==
    (last.op = "find" /\ last.sort /\ bad = 0) =>
        /\ Len(archive) = 0 =>
              /\ ~last.res.ok
              /\ last.res.kind = "ArchiveEmpty"
        /\ (Len(archive) > 0 /\ ImageIndices(1..Len(archive)) = {}) =>
              /\ ~last.res.ok
              /\ last.res.kind = "NoImageFound"
        /\ ArchiveErr("Archive is empty").kind
              # ArchiveErr("No images found in archive").kind

----------------------------------------------------------------------------
(***************************************************************************)
(* Thumbnail size (image_processor/resizer.rs).  The scale factors are f32 *)
(* values: a positive f32 is a record [n, e] standing for n * 2^e with a   *)
(* 24-bit significand n, and every quotient and product is rounded to the  *)
(* nearest such value, ties to the even significand.  Sides are below 2^24 *)
(* so `as f32` is exact on them.                                           *)
(***************************************************************************)
MaxSide == 10

\* source sides: every small side and the sides of test_no_upscale
SrcSides == 0..MaxSide \cup {50, 75, 100}

\* requested sides: every small side and the shell's 256
MaxSides == 0..MaxSide \cup {256}

F32Zero == [n |-> 0, e |-> 0]

F32One == [n |-> 8388608, e |-> -23]

\* long division of r by s below the bits n already produced, until the
\* significand has 24 bits
RECURSIVE F32DivBits(_, _, _, _)
F32DivBits(n, r, s, e) ==
    IF n >= 8388608 THEN [n |-> n, r |-> r, e |-> e]
    ELSE IF 2 * r >= s THEN F32DivBits(2 * n + 1, 2 * r - s, s, e - 1)
    ELSE F32DivBits(2 * n, 2 * r, s, e - 1)

\* round to nearest, ties to even, from the remainder of the division
F32RoundDiv(d, s) ==
    IF 2 * d.r > s \/ (2 * d.r = s /\ d.n % 2 = 1)
    THEN (IF d.n + 1 = 16777216 THEN [n |-> 8388608, e |-> d.e + 1]
          ELSE [n |-> d.n + 1, e |-> d.e])
    ELSE [n |-> d.n, e |-> d.e]

\* m as f32 / s as f32
F32Div(m, s) ==
    IF m = 0 THEN F32Zero ELSE F32RoundDiv(F32DivBits(m \div s, m % s, s, 0), s)

F32Less(a, b) ==
    IF b.n = 0 THEN FALSE
    ELSE IF a.n = 0 THEN TRUE
    ELSE a.e < b.e \/ (a.e = b.e /\ a.n < b.n)

\* f32::min
F32Min(a, b) == IF F32Less(b, a) THEN b ELSE a

\* a >= 1.0
F32GeOne(a) == ~F32Less(a, F32One)

\* how many bits p has beyond 24
RECURSIVE Excess(_)
Excess(p) == IF p < 16777216 THEN 0 ELSE 1 + Excess(p \div 2)

RoundHalfEven(q, rem, half) ==
    IF rem > half \/ (rem = half /\ q % 2 = 1) THEN q + 1 ELSE q

\* the exact product p * 2^e rounded to a 24-bit significand
F32Rounded(p, d, e) ==
    [n |-> IF d = 0 THEN p ELSE RoundHalfEven(p \div 2^d, p % 2^d, 2^(d - 1)),
     e |-> e + d]

\* the product hi * 256 + lo, which may take 32 bits, rounded to a 24-bit
\* significand; d counts its bits beyond 24
F32RoundedWide(hi, lo, d, e) ==
    [n |-> IF d = 0 THEN hi * 256 + lo
           ELSE RoundHalfEven(hi * 2^(8 - d) + lo \div 2^d, lo % 2^d, 2^(d - 1)),
     e |-> e + d]

\* how many bits t * 256 has beyond 24
RECURSIVE ExcessTop(_)
ExcessTop(t) == IF t < 65536 THEN 0 ELSE 1 + ExcessTop(t \div 2)

F32MulParts(hi, lo, e) ==
    F32RoundedWide(hi, lo, ExcessTop(hi + lo \div 256), e)

\* s as f32 * f, for s below 256
F32Mul(s, f) == F32MulParts(s * (f.n \div 256), s * (f.n % 256), f.e)

\* f.round() as u32: to the nearest integer, halves away from zero
RoundToU32(f) ==
    IF f.e >= 0 THEN f.n * 2^f.e
    ELSE IF -f.e > 30 THEN 0
    ELSE (f.n + 2^(-f.e - 1)) \div 2^(-f.e)

AtLeastOne(n) == IF n < 1 THEN 1 ELSE n

Scale_Larger(src_width, src_height, max_width, max_height) ==
    IF F32Less(F32Div(max_width, src_width), F32Div(max_height, src_height))
    THEN F32Div(max_height, src_height)
    ELSE F32Div(max_width, src_width)

\* rx.min(ry)
Scale(src_width, src_height, max_width, max_height) ==
    F32Min(F32Div(max_width, src_width), F32Div(max_height, src_height))

Scaled(src_width, src_height, scale) ==
    <<AtLeastOne(RoundToU32(F32Mul(src_width, scale))),
      AtLeastOne(RoundToU32(F32Mul(src_height, scale)))>>

calculate_thumbnail_size_AlwaysScale(src_width, src_height, max_width, max_height) ==
    IF src_width = 0 \/ src_height = 0 THEN <<0, 0>>
    ELSE Scaled(src_width, src_height,
                Scale(src_width, src_height, max_width, max_height))

calculate_thumbnail_size(src_width, src_height, max_width, max_height) ==
    IF src_width = 0 \/ src_height = 0 THEN <<0, 0>>
    ELSE IF F32GeOne(Scale(src_width, src_height, max_width, max_height))
         THEN <<src_width, src_height>>
    ELSE Scaled(src_width, src_height,
                Scale(src_width, src_height, max_width, max_height))

InitResize ==
    /\ OnlyCall
    /\ \E sw \in SrcSides, sh \in SrcSides, mw \in MaxSides, mh \in MaxSides :
          call = [pc |-> "call", fn |-> "calculate_thumbnail_size",
                  src_width |-> sw, src_height |-> sh,
                  max_width |-> mw, max_height |-> mh, res |-> <<0, 0>>]

CalculateThumbnailSize ==
    /\ call.pc = "call"
    /\ call.fn = "calculate_thumbnail_size"
    /\ call' = [call EXCEPT !.pc = "done",
                   !.res = calculate_thumbnail_size(call.src_width, call.src_height,
                                                    call.max_width, call.max_height)]
    /\ UNCHANGED <<archVars, rar, dec, det>>

NextResize == CalculateThumbnailSize

SpecResize == InitResize /\ [][NextResize]_vars

\* C14: calculate_thumbnail_size never upscales: a source of at least 1 x 1
\* that fits the requested box is returned unchanged, and for every input
\* the returned width is at most the source width and the returned height
\* at most the source height.
C14_NeverUpscales ==
    (call.pc = "done") =>
        /\ (call.src_width >= 1 /\ call.src_height >= 1
               /\ call.src_width <= call.max_width
               /\ call.src_height <= call.max_height)
              => call.res = <<call.src_width, call.src_height>>
        /\ call.res[1] <= call.src_width
        /\ call.res[2] <= call.src_height

C14_Witness ==
    /\ call.pc = "done"
    /\ call.src_width = 50 /\ call.src_height = 75
    /\ call.max_width = 256 /\ call.max_height = 256
    /\ call.res = <<50, 75>>

Abs(x) == IF x < 0 THEN -x ELSE x

\* the request scales down: the exact min(max_w/src_w, max_h/src_h) is below 1
ScalesDown ==
    /\ call.pc = "done"
    /\ call.src_width >= 1 /\ call.src_height >= 1
    /\ (call.max_width < call.src_width \/ call.max_height < call.src_height)

\* the width is the limiting side: max_w/src_w <= max_h/src_h
WidthLimits == call.max_width * call.src_height <= call.max_height * call.src_width

\* C15 (as claimed): a scaled-down result (w, h) keeps the aspect ratio to
\* within 0.01: |w/h - src_w/src_h| < 0.01.
C15_AspectRatioWithinHundredth ==
    ScalesDown =>
        100 * Abs(call.res[1] * call.src_height - call.res[2] * call.src_width)
            < call.res[2] * call.src_height

\* C15 (amended): in a scaled-down result each side is within one pixel of
\* the source side times the exact scale min(max_w/src_w, max_h/src_h): the
\* limiting side is within one pixel of the box side and the other side
\* within one pixel of its proportional length.
C15_SidesWithinOnePixel ==
    ScalesDown =>
        IF WidthLimits
        THEN /\ Abs(call.res[1] - call.max_width) <= 1
             /\ Abs(call.res[2] * call.src_width
                      - call.src_height * call.max_width) <= call.src_width
        ELSE /\ Abs(call.res[2] - call.max_height) <= 1
             /\ Abs(call.res[1] * call.src_height
                      - call.src_width * call.max_height) <= call.src_height

C15_Witness ==
    /\ ScalesDown
    /\ call.src_width = 10 /\ call.src_height = 3
    /\ call.max_width = 4 /\ call.max_height = 4
    /\ call.res = <<4, 1>>

----------------------------------------------------------------------------
(***************************************************************************)
(* Compositing on a background (image_processor/thumbnail.rs).  An image   *)
(* is its width, its height and its pixels, each <<r, g, b, a>>.  The      *)
(* blend is computed in f32 as the code computes it.                       *)
(***************************************************************************)
MaxImageWidth == 2

MaxImageHeight == 2

\* a significand brought back to 24 bits
RECURSIVE F32Norm(_)
F32Norm(f) ==
    IF f.n = 0 THEN F32Zero
    ELSE IF f.n >= 16777216 THEN F32Norm([n |-> f.n \div 2, e |-> f.e + 1])
    ELSE IF f.n < 8388608 THEN F32Norm([n |-> 2 * f.n, e |-> f.e - 1])
    ELSE f

\* the exact difference 2^(-e) - n in units of 2^e, for a value below 1
OneMinusExact(f) == (2^(-f.e - 1) - f.n) + 2^(-f.e - 1)

\* 1.0 - f, for f below 1.0
F32OneMinus(f) ==
    IF f.n = 0 THEN F32One
    ELSE F32Norm(F32Rounded(OneMinusExact(f), Excess(OneMinusExact(f)), f.e))

\* the sum in units of 2^(big.e - 3), rounded to nearest even: sticky says
\* that bits of the smaller operand fell below the last unit
F32RoundSum(q, rem, half, sticky, e) ==
    F32Norm([n |-> IF rem > half \/ (rem = half /\ (sticky \/ q % 2 = 1))
                   THEN q + 1 ELSE q,
             e |-> e])

F32SumOf(total, d, sticky, e) ==
    F32RoundSum(total \div 2^d, total % 2^d, 2^(d - 1), sticky, e + d)

F32AddAligned(big, small, diff) ==
    IF diff > 26
    THEN F32SumOf(big.n * 8, 3, TRUE, big.e - 3)
    ELSE F32SumOf(big.n * 8 + (small.n * 8) \div 2^diff,
                  Excess(big.n * 8 + (small.n * 8) \div 2^diff),
                  (small.n * 8) % 2^diff # 0, big.e - 3)

\* x + y for normalised values
F32Add(x, y) ==
    IF x.n = 0 THEN y
    ELSE IF y.n = 0 THEN x
    ELSE IF x.e >= y.e THEN F32AddAligned(x, y, x.e - y.e)
    ELSE F32AddAligned(y, x, y.e - x.e)

\* f as u8: towards zero, saturating
TruncToU8(f) ==
    IF f.e >= 0 THEN Min(f.n * 2^Min(f.e, 6), 255)
    ELSE IF -f.e > 30 THEN 0
    ELSE Min(f.n \div 2^(-f.e), 255)

\* ((c as f32 * alpha) + (b as f32 * (1.0 - alpha))) as u8
Blend(c, b, alpha) ==
    TruncToU8(F32Add(F32Norm(F32Mul(c, alpha)),
                     F32Norm(F32Mul(b, F32OneMinus(alpha)))))

\* the body of the loop for one pixel, alpha = pixel[3] as f32 / 255.0
BlendPixel(pixel, bg, alpha) ==
    IF F32Less(alpha, F32One)
    THEN <<Blend(pixel[1], bg[1], alpha), Blend(pixel[2], bg[2], alpha),
           Blend(pixel[3], bg[3], alpha), 255>>
    ELSE <<pixel[1], pixel[2], pixel[3], 255>>

apply_background(rgba, bg) ==
    [rgba EXCEPT !.pixels =
        [k \in DOMAIN rgba.pixels |->
            BlendPixel(rgba.pixels[k], bg, F32Div(rgba.pixels[k][4], 255))]]

\* pixel colours: the red of the tests, white, black, a dark grey and a
\* colour with three different channels
PixelColours ==
    {<<255, 0, 0>>, <<255, 255, 255>>, <<0, 0, 0>>, <<3, 3, 3>>, <<0, 128, 255>>}

\* background colours: the default white, black and a dark grey
Backgrounds == {<<255, 255, 255, 255>>, <<0, 0, 0, 255>>, <<3, 3, 3, 255>>}

Alphas == 0..255

\* a raster of one colour whose alpha alternates between a and 255 - a
Raster(w, h, colour, a) ==
    [width |-> w, height |-> h,
     pixels |-> [k \in 1..(w * h) |->
                    <<colour[1], colour[2], colour[3],
                      IF k % 2 = 1 THEN a ELSE 255 - a>>]]

InitBackground ==
    /\ OnlyCall
    /\ \E w \in 1..MaxImageWidth, h \in 1..MaxImageHeight,
          colour \in PixelColours, a \in Alphas, bg \in Backgrounds :
          call = [pc |-> "call", fn |-> "apply_background",
                  input |-> Raster(w, h, colour, a), bg |-> bg,
                  rgba |-> Raster(w, h, colour, a)]

\* apply_background(&mut rgba, bg)
ApplyBackground ==
    /\ call.pc = "call"
    /\ call.fn = "apply_background"
    /\ call' = [call EXCEPT !.pc = "done",
                            !.rgba = apply_background(call.rgba, call.bg)]
    /\ UNCHANGED <<archVars, rar, dec, det>>

NextBackground == ApplyBackground

SpecBackground == InitBackground /\ [][NextBackground]_vars

\* c*a/255 + b*(255-a)/255 truncated to an integer
ExactBlend(c, b, a) == (c * a + b * (255 - a)) \div 255

\* C16 (as claimed): after apply_background every colour channel of every
\* pixel is c*a/255 + b*(255-a)/255 truncated to an integer, for its old
\* value c, the pixel's old alpha a and the background channel b; a pixel
\* with a = 255 keeps its colour, a pixel with a = 0 takes the background
\* colour, every alpha is 255 and the dimensions are unchanged.
C16_BlendIsExactFormula ==
    (call.pc = "done") =>
        /\ call.rgba.width = call.input.width
        /\ call.rgba.height = call.input.height
        /\ DOMAIN call.rgba.pixels = DOMAIN call.input.pixels
        /\ \A k \in DOMAIN call.input.pixels :
              /\ call.rgba.pixels[k][4] = 255
              /\ \A ch \in 1..3 :
                    call.rgba.pixels[k][ch]
                        = ExactBlend(call.input.pixels[k][ch], call.bg[ch],
                                     call.input.pixels[k][4])

----------------------------------------------------------------------------
(***************************************************************************)
(* Channel swap (image_processor/hbitmap.rs): a buffer is a sequence of    *)
(* bytes, four to a pixel; bytes after the last complete pixel form no     *)
(* chunk of chunks_exact_mut(4).                                           *)
(***************************************************************************)
MaxBufLen == 8

BufBytes == {0, 128, 255}

Buffers == UNION {[1..n -> BufBytes] : n \in 0..MaxBufLen}

\* the index of byte k after chunk.swap(i, j) on the complete chunks: offsets
\* i and j of a chunk take each other's byte
SwappedIndex(k, len, i, j) ==
    IF k > 4 * (len \div 4) THEN k
    ELSE IF (k - 1) % 4 = i THEN k - i + j
    ELSE IF (k - 1) % 4 = j THEN k - j + i
    ELSE k

rgba_to_bgra_SwapFirstTwo(rgba) ==
    [k \in 1..Len(rgba) |-> rgba[SwappedIndex(k, Len(rgba), 0, 1)]]

rgba_to_bgra(rgba) ==
    [k \in 1..Len(rgba) |-> rgba[SwappedIndex(k, Len(rgba), 0, 2)]]

InitSwap ==
    /\ OnlyCall
    /\ \E buf \in Buffers :
          call = [pc |-> "call", fn |-> "rgba_to_bgra", input |-> buf,
                  rgba |-> buf, bgra |-> <<>>, twice |-> <<>>]

\* let bgra = rgba_to_bgra(&rgba); let twice = rgba_to_bgra(&bgra)
RgbaToBgra ==
    /\ call.pc = "call"
    /\ call.fn = "rgba_to_bgra"
    /\ call' = [call EXCEPT !.pc = "done",
                            !.bgra = rgba_to_bgra(call.rgba),
                            !.twice = rgba_to_bgra(rgba_to_bgra(call.rgba))]
    /\ UNCHANGED <<archVars, rar, dec, det>>

NextSwap == RgbaToBgra

SpecSwap == InitSwap /\ [][NextSwap]_vars

\* C17: rgba_to_bgra returns a buffer of the input's length in which every
\* complete 4-byte pixel has bytes 0 and 2 exchanged and bytes 1 and 3
\* unchanged; the input buffer is as it was; applying it twice gives the
\* original buffer, whatever the length.
C17_SwapsRedAndBlue ==
    (call.pc = "done") =>
        /\ Len(call.bgra) = Len(call.rgba)
        /\ \A p \in 0..(Len(call.rgba) \div 4 - 1) :
              /\ call.bgra[4 * p + 1] = call.rgba[4 * p + 3]
              /\ call.bgra[4 * p + 3] = call.rgba[4 * p + 1]
              /\ call.bgra[4 * p + 2] = call.rgba[4 * p + 2]
              /\ call.bgra[4 * p + 4] = call.rgba[4 * p + 4]
        /\ call.rgba = call.input
        /\ call.twice = call.input

C17_Witness ==
    /\ call.pc = "done"
    /\ call.input = <<255, 0, 0, 128, 0, 128, 255>>
    /\ call.bgra = <<0, 0, 255, 128, 0, 128, 255>>
    /\ call.twice = call.input

----------------------------------------------------------------------------
(***************************************************************************)
(* Classification by extension (archive/mod.rs, archive/utils.rs).  A path *)
(* is put together from a directory part, a stem, an extension written in  *)
(* some case, and possibly a trailing separator.                           *)
(***************************************************************************)
ToAsciiUppercase(c) ==
    IF LetterIndex(LowerCase, c) = 0 THEN c
    ELSE UpperCase[LetterIndex(LowerCase, c)]

UpperStr(s) == [i \in 1..Len(s) |-> ToAsciiUppercase(s[i])]

Capitalised(s) ==
    [i \in 1..Len(s) |-> IF i = 1 THEN ToAsciiUppercase(s[i]) ELSE s[i]]

Cases == {"lower", "upper", "capitalised"}

InCase(s, case) ==
    CASE case = "upper" -> UpperStr(s)
      [] case = "capitalised" -> Capitalised(s)
      [] OTHER -> s

\* "zip" | "cbz" | "epub" | "phz"
ZipExtensions ==
    { <<"z", "i", "p">>,
      <<"c", "b", "z">>,
      <<"e", "p", "u", "b">>,
      <<"p", "h", "z">> }

\* "rar" | "cbr"
RarExtensions == { <<"r", "a", "r">>,
                    <<"c", "b", "r">> }

\* "7z" | "cb7"
SevenZipExtensions == { <<"7", "z">>,
                         <<"c", "b", "7">> }

\* the match of from_extension on the lowercased extension
MatchExtension(lower) ==
    IF lower \in ZipExtensions THEN "Zip"
    ELSE IF lower \in RarExtensions THEN "Rar"
    ELSE IF lower \in SevenZipExtensions THEN "SevenZip"
    ELSE "None"

from_extension_CaseSensitive(ext) == MatchExtension(ext)

\* ArchiveType::from_extension: str::to_lowercase is to_ascii_lowercase on
\* the ASCII names used here
from_extension(ext) == MatchExtension(LowerStr(ext))

OpenOk(b) == [ok |-> TRUE, kind |-> "", backend |-> b]

OpenErr(kind) == [ok |-> FALSE, kind |-> kind, backend |-> ""]

\* the match of open_archive on the archive type
OpenAs(archive_type) ==
    CASE archive_type = "Zip" -> OpenOk("ZipFile")
      [] archive_type = "Rar" -> OpenOk("RarFile")
      [] archive_type = "SevenZip" -> OpenOk("SevenZFile")
      [] OTHER -> OpenErr("UnsupportedFormat")

OpenByExtension(extension) ==
    IF extension = NoExt THEN OpenErr("InvalidPath")
    ELSE OpenAs(from_extension(extension))

\* open_archive, up to the call of the backend's open
open_archive(path) == OpenByExtension(Extension(path))

\* extensions that are in neither list
OtherExtensions ==
    { <<"t", "x", "t">>,
      <<"z", "i">>,
      <<"z", "i", "p", "x">>,
      <<"j", "p", "g", "x">>,
      <<"j", "p">>,
      <<"t", "a", "r">>,
      <<"d">>,
      <<"z", "7">>,
      <<"p", "d", "f">> }

ExtensionInputs ==
    ZipExtensions \cup RarExtensions \cup SevenZipExtensions
        \cup IMAGE_EXTENSIONS \cup OtherExtensions

DirInputs ==
    { <<>>,
      <<"d", "/">>,
      <<"a", ".", "j", "p", "g", "/">>,
      <<"a", ".", "z", "i", "p", "\\">> }

StemInputs == { <<>>,
                <<"a">>,
                <<"a", ".", "d">>,
                <<"p", " ", "1">> }

TrailInputs == { <<>>, <<"/">> }

\* the written name: stem, and a dot and the extension when there is one
Written(stem, base, case) ==
    IF base = NoExt THEN stem ELSE stem \o <<".">> \o InCase(base, case)

InitClassify ==
    /\ OnlyCall
    /\ \E dir \in DirInputs, stem \in StemInputs, trail \in TrailInputs,
          base \in ExtensionInputs \cup {NoExt, <<>>}, case \in Cases :
          \* "." and ".." are not file names, and a name needs a character
          /\ ~(stem = <<>> /\ base \in {NoExt, <<>>, <<".">>})
          /\ base \in {NoExt, <<>>} => case = "lower"
          /\ call = [pc |-> "call", fn |-> "open_archive",
                     stem |-> stem, base |-> base, case |-> case,
                     path |-> dir \o Written(stem, base, case) \o trail,
                     type |-> "None", opened |-> OpenErr(""), image |-> FALSE]

\* open_archive and is_image_file on the same path; from_extension on its
\* extension when it has one
Classify ==
    /\ call.pc = "call"
    /\ call.fn = "open_archive"
    /\ call' = [call EXCEPT
                   !.pc = "done",
                   !.type = IF Extension(call.path) = NoExt THEN "None"
                            ELSE from_extension(Extension(call.path)),
                   !.opened = open_archive(call.path),
                   !.image = is_image_file(call.path)]
    /\ UNCHANGED <<archVars, rar, dec, det>>

NextClassify == Classify

SpecClassify == InitClassify /\ [][NextClassify]_vars

\* the final extension of the written name, in lower case: a name that is
\* only a dot and an extension has none, and the stem a.d without a written
\* extension has the extension d
FinalExtension ==
    IF call.base # NoExt
    THEN (IF call.stem = <<>> THEN NoExt ELSE call.base)
    ELSE IF call.stem = <<"a", ".", "d">> THEN <<"d">> ELSE NoExt

\* C18: whatever the case of the letters, from_extension gives Zip exactly
\* for zip, cbz, epub, phz, Rar exactly for rar, cbr, SevenZip exactly for
\* 7z, cb7 and nothing otherwise; open_archive fails with InvalidPath when
\* the path has no extension and with UnsupportedFormat when the extension
\* is none of the eight; is_image_file is true exactly when the final
\* extension is one of bmp, ico, gif, jpg, jpe, jfif, jpeg, png, tif, tiff,
\* webp, avif, so it is false without an extension and for a bare .jpg.
C18_ClassifiedByExtension ==
    (call.pc = "done") =>
        /\ call.type = "Zip" <=> FinalExtension
              \in { <<"z", "i", "p">>,
                    <<"c", "b", "z">>,
                    <<"e", "p", "u", "b">>,
                    <<"p", "h", "z">> }
        /\ call.type = "Rar" <=> FinalExtension
              \in { <<"r", "a", "r">>,
                    <<"c", "b", "r">> }
        /\ call.type = "SevenZip" <=> FinalExtension
              \in { <<"7", "z">>,
                    <<"c", "b", "7">> }
        /\ call.type \in {"Zip", "Rar", "SevenZip", "None"}
        /\ call.opened.ok <=> call.type # "None"
        /\ call.opened.ok =>
              call.opened.backend
                  = (CASE call.type = "Zip" -> "ZipFile"
                       [] call.type = "Rar" -> "RarFile"
                       [] OTHER -> "SevenZFile")
        /\ ~call.opened.ok =>
              call.opened.kind = (IF FinalExtension = NoExt THEN "InvalidPath"
                                  ELSE "UnsupportedFormat")
        /\ call.image <=> FinalExtension
              \in { <<"b", "m", "p">>,
                    <<"i", "c", "o">>,
                    <<"g", "i", "f">>,
                    <<"j", "p", "g">>,
                    <<"j", "p", "e">>,
                    <<"j", "f", "i", "f">>,
                    <<"j", "p", "e", "g">>,
                    <<"p", "n", "g">>,
                    <<"t", "i", "f">>,
                    <<"t", "i", "f", "f">>,
                    <<"w", "e", "b", "p">>,
                    <<"a", "v", "i", "f">> }

C18_Witness ==
    /\ call.pc = "done"
    /\ call.path = <<"a", ".", "j", "p", "g", "/", ".", "C", "b", "z">>
    /\ call.opened = OpenErr("InvalidPath")
    /\ ~call.image

----------------------------------------------------------------------------
(***************************************************************************)
(* One thumbnail request, step by step (com/cbxshell.rs                    *)
(* extract_thumbnail_internal and image_processor/thumbnail.rs             *)
(* create_thumbnail).  call.pc is the step about to run, call.log the      *)
(* steps that ran and whether each succeeded.  The file found in the       *)
(* archive is given by its bytes, by what a decoder makes of it, and by    *)
(* whether a decoder can read it.                                          *)
(***************************************************************************)
JpegBytes == <<255, 216, 255, 224>>

PngBytes == <<137, 80, 78, 71, 13, 10, 26, 10>>

TextBytes == <<97, 98, 99, 100>>

ImageFile(bytes, decodable, w, h, colour, a) ==
    [bytes |-> bytes, decodable |-> decodable, width |-> w, height |-> h,
     colour |-> colour, alpha |-> a]

ImageFiles ==
    { ImageFile(JpegBytes, TRUE, 3, 2, <<255, 0, 0>>, 255),
      ImageFile(PngBytes, TRUE, 2, 2, <<0, 128, 255>>, 65),
      ImageFile(PngBytes, TRUE, 10, 3, <<255, 255, 255>>, 0),
      ImageFile(PngBytes, FALSE, 0, 0, <<0, 0, 0>>, 0),
      ImageFile(TextBytes, TRUE, 2, 2, <<3, 3, 3>>, 255),
      ImageFile(<<>>, FALSE, 0, 0, <<0, 0, 0>>, 0) }

\* the cx of GetThumbnail
RequestedSizes == {0, 2}

\* where WIC gives up, if it does
WicOutcomes == {"none", "CoCreateInstance", "GetSize"}

\* the alpha values the resampler may leave in its output
ResizedAlphas == {0, 65, 255}

Ran(step, ok) == [step |-> step, ok |-> ok]

Err(kind, msg) == [kind |-> kind, msg |-> msg]

Pass(c, step, next) ==
    [c EXCEPT !.pc = next, !.log = Append(c.log, Ran(step, TRUE))]

Fail(c, step, kind, msg) ==
    [c EXCEPT !.pc = "failed", !.err = Err(kind, msg),
              !.log = Append(c.log, Ran(step, FALSE))]

\* RgbaImage::as_raw: the bytes of the pixels, four to a pixel
AsRaw(pixels) ==
    [k \in 1..(4 * Len(pixels)) |-> pixels[((k - 1) \div 4) + 1][((k - 1) % 4) + 1]]

InitPipeline ==
    /\ backend \in Backends
    /\ archive \in HandleArchives
    /\ bad \in 0..Len(archive)
    /\ backend = "RarFile" => bad # 1
    /\ pos = InitialPos(backend, archive)
    /\ borrowed = FALSE
    /\ last = NoOp
    /\ prior = "none"
    /\ rar = RarIdle
    /\ dec = DecIdle
    /\ det = DetIdle
    /\ \E openable \in BOOLEAN, file \in ImageFiles, cx \in RequestedSizes :
          call = [pc |-> "open", fn |-> "extract_thumbnail_internal",
                  openable |-> openable, file |-> file, cx |-> cx,
                  log |-> <<>>, err |-> Err("", ""), io |-> Io(<<>>, pos),
                  sort |-> FALSE, entry |-> NoEntry, data |-> <<>>,
                  source |-> <<0, 0>>, target |-> <<0, 0>>,
                  rgba |-> Raster(0, 0, <<0, 0, 0>>, 0), bgra |-> <<>>]

\* Step 1: open_archive / open_archive_from_stream
OpenArchive ==
    /\ call.pc = "open"
    /\ call' = IF call.openable THEN Pass(call, "open", "sort")
               ELSE Fail(call, "open", "Archive", "open failed")
    /\ UNCHANGED <<archVars, rar, dec, det>>

\* Step 4: should_sort_images()
ReadSortFlag ==
    /\ call.pc = "sort"
    /\ \E sort \in BOOLEAN :
          call' = [Pass(call, "sort", "find") EXCEPT !.sort = sort]
    /\ UNCHANGED <<archVars, rar, dec, det>>

Found(c, f) ==
    IF f.res.ok
    THEN [Pass(c, "find", "extract") EXCEPT !.entry = f.res.entry, !.io = f.io]
    ELSE Fail(c, "find", f.res.kind, f.res.msg)

\* Step 5: archive.find_first_image(sort)?
FindStep ==
    /\ call.pc = "find"
    /\ call' = Found(call, Archive_find_first_image(backend, archive, bad,
                                                    call.sort, call.io))
    /\ UNCHANGED <<archVars, rar, dec, det>>

Extracted(c, x) ==
    IF x.res.ok
    THEN [Pass(c, "extract", "verify") EXCEPT !.data = c.file.bytes, !.io = x.io]
    ELSE Fail(c, "extract", x.res.kind, x.res.msg)

\* Step 6: archive.extract_entry(&entry)?
ExtractStep ==
    /\ call.pc = "extract"
    /\ call' = Extracted(call, Archive_extract_entry(backend, archive, bad,
                                                     call.entry, call.io))
    /\ UNCHANGED <<archVars, rar, dec, det>>

Verified(c, v) ==
    IF v.ok THEN Pass(c, "verify", "decode")
    ELSE Fail(c, "verify", v.kind, v.msg)

\* Step 6b: verify_image_data(&image_data, &entry.name)?
VerifyStep ==
    /\ call.pc = "verify"
    /\ call' = Verified(call, verify_image_data(call.data))
    /\ UNCHANGED <<archVars, rar, dec, det>>

DecodedImage(c, d) ==
    IF d.ok
    THEN [Pass(c, "decode", "size") EXCEPT
             !.source = <<c.file.width, c.file.height>>,
             !.rgba = Raster(c.file.width, c.file.height, c.file.colour,
                             c.file.alpha)]
    ELSE Fail(c, "decode", "Image", d.msg)

\* create_thumbnail Step 1: decoder::decode_image(image_data)
DecodeStep ==
    /\ call.pc = "decode"
    /\ \E wicFail \in WicOutcomes :
          /\ wicFail = "none" => call.file.decodable
          /\ call' = DecodedImage(call,
                        decode_image(call.data = <<>>, "windows", wicFail,
                                     <<call.file.width, call.file.height>>,
                                     call.file.decodable))
    /\ UNCHANGED <<archVars, rar, dec, det>>

\* let thumbnail_size = if cx == 0 { 256 } else { cx }
ThumbnailSize(cx) == IF cx = 0 THEN 256 ELSE cx

Sized(c, t) ==
    IF t[1] = 0 \/ t[2] = 0
    THEN Fail(c, "size", "Image", "Invalid image dimensions (0x0)")
    ELSE [Pass(c, "size", IF t # c.source THEN "resize" ELSE "composite")
             EXCEPT !.target = t]

\* create_thumbnail Step 2, and Step 3 which cannot fail
SizeStep ==
    /\ call.pc = "size"
    /\ call' = Sized(call, calculate_thumbnail_size(call.source[1], call.source[2],
                               ThumbnailSize(call.cx), ThumbnailSize(call.cx)))
    /\ UNCHANGED <<archVars, rar, dec, det>>

\* resizer::resize_image: the resampler succeeds or not, and the alpha it
\* leaves in the pixels is its own business
resize_image_FastPathFirst(source, target_width, target_height, resamplerOk, a) ==
    IF source.width = target_width /\ source.height = target_height
    THEN [ok |-> TRUE, msg |-> "", image |-> source]
    ELSE IF target_width = 0 \/ target_height = 0
    THEN [ok |-> FALSE, msg |-> "Target dimensions must be greater than zero",
          image |-> source]
    ELSE IF ~resamplerOk
    THEN [ok |-> FALSE, msg |-> "Resize operation failed", image |-> source]
    ELSE [ok |-> TRUE, msg |-> "",
          image |-> Raster(target_width, target_height,
                           IF source.pixels = <<>> THEN <<0, 0, 0>>
                           ELSE source.pixels[1], a)]

resize_image(source, target_width, target_height, resamplerOk, a) ==
    IF target_width = 0 \/ target_height = 0
    THEN [ok |-> FALSE, msg |-> "Target dimensions must be greater than zero",
          image |-> source]
    ELSE IF source.width = target_width /\ source.height = target_height
    THEN [ok |-> TRUE, msg |-> "", image |-> source]
    ELSE IF ~resamplerOk
    THEN [ok |-> FALSE, msg |-> "Resize operation failed", image |-> source]
    ELSE [ok |-> TRUE, msg |-> "",
          image |-> Raster(target_width, target_height,
                           IF source.pixels = <<>> THEN <<0, 0, 0>>
                           ELSE source.pixels[1], a)]

Resized(c, r) ==
    IF r.ok THEN [Pass(c, "resize", "composite") EXCEPT !.rgba = r.image]
    ELSE Fail(c, "resize", "Image", r.msg)

\* create_thumbnail Step 4, when the dimensions changed
ResizeStep ==
    /\ call.pc = "resize"
    /\ \E resamplerOk \in BOOLEAN, a \in ResizedAlphas :
          call' = Resized(call, resize_image(call.rgba, call.target[1],
                                             call.target[2], resamplerOk, a))
    /\ UNCHANGED <<archVars, rar, dec, det>>

\* create_thumbnail Step 5: apply_background(&mut rgba, config.background_color)
CompositeStep ==
    /\ call.pc = "composite"
    /\ call' = [Pass(call, "composite", "swap") EXCEPT
                   !.rgba = apply_background(call.rgba, <<255, 255, 255, 255>>)]
    /\ UNCHANGED <<archVars, rar, dec, det>>

\* create_thumbnail Step 6: hbitmap::rgba_to_bgra(rgba.as_raw())
SwapStep ==
    /\ call.pc = "swap"
    /\ call' = [Pass(call, "swap", "build") EXCEPT
                   !.bgra = rgba_to_bgra(AsRaw(call.rgba.pixels))]
    /\ UNCHANGED <<archVars, rar, dec, det>>

\* u32 values are kept as their two 16-bit halves
HALF == 65536

AsU32(n) == [hi |-> n \div HALF, lo |-> n % HALF]

\* the low and the high half of x * y, for x and y below 2^16
MulLow16(x, y) == ((x % 256) * y + (((x \div 256) * y) % 256) * 256) % HALF

MulHigh16(x, y) ==
    (((x \div 256) * y) \div 256)
      + (((((x \div 256) * y) % 256) * 256 + (x % 256) * y) \div HALF)

MulCross(a, b) ==
    MulHigh16(a.lo, b.lo) + MulLow16(a.hi, b.lo) + MulLow16(a.lo, b.hi)

\* u32 `*` in a build without overflow checks
wrapping_mul(a, b) ==
    [hi |-> MulCross(a, b) % HALF, lo |-> MulLow16(a.lo, b.lo)]

\* whether the product of two u32 does not fit a u32
MulOverflows(a, b) ==
    \/ a.hi > 0 /\ b.hi > 0
    \/ MulHigh16(a.hi, b.lo) > 0
    \/ MulHigh16(a.lo, b.hi) > 0
    \/ MulCross(a, b) >= HALF

\* width * height * 4 panics in a build with overflow checks
SizeOverflows(width, height) ==
    \/ MulOverflows(AsU32(width), AsU32(height))
    \/ MulOverflows(wrapping_mul(AsU32(width), AsU32(height)), AsU32(4))

\* (width * height * 4) as usize
expected_size(width, height) ==
    wrapping_mul(wrapping_mul(AsU32(width), AsU32(height)), AsU32(4))

Panicked(c) == [c EXCEPT !.pc = "panicked"]

\* hbitmap::create_hbitmap_from_bgra: gdiOk says whether CreateDIBSection
\* gives a bitmap, overflowChecks whether the build checks arithmetic
create_hbitmap_from_bgra(c, width, height, gdiOk, overflowChecks) ==
    IF width = 0 \/ height = 0
    THEN Fail(c, "build", "Image", "Width and height must be greater than zero")
    ELSE IF overflowChecks /\ SizeOverflows(width, height)
    THEN Panicked(c)
    ELSE IF AsU32(Len(c.bgra)) # expected_size(width, height)
    THEN Fail(c, "build", "Image", "Invalid data size")
    ELSE IF ~gdiOk THEN Fail(c, "build", "Windows", "CreateDIBSection failed")
    ELSE Pass(c, "build", "done")

\* create_thumbnail Step 7
BuildStep ==
    /\ call.pc = "build"
    /\ \E gdiOk \in BOOLEAN, overflowChecks \in BOOLEAN :
          call' = create_hbitmap_from_bgra(call, call.target[1], call.target[2],
                                           gdiOk, overflowChecks)
    /\ UNCHANGED <<archVars, rar, dec, det>>

NextPipeline ==
    \/ OpenArchive
    \/ ReadSortFlag
    \/ FindStep
    \/ ExtractStep
    \/ VerifyStep
    \/ DecodeStep
    \/ SizeStep
    \/ ResizeStep
    \/ CompositeStep
    \/ SwapStep
    \/ BuildStep

SpecPipeline == InitPipeline /\ [][NextPipeline]_vars

StepOrder ==
    <<"open", "sort", "find", "extract", "verify", "decode", "size", "resize",
      "composite", "swap", "build">>

\* the order without the resize, which is left out when the target size is
\* the decoded size
StepOrderUnresized ==
    <<"open", "sort", "find", "extract", "verify", "decode", "size",
      "composite", "swap", "build">>

IsPrefix(s, t) == Len(s) <= Len(t) /\ \A i \in 1..Len(s) : s[i] = t[i]

StepsRun == [i \in 1..Len(call.log) |-> call.log[i].step]

HasRun(step) == \E i \in 1..Len(call.log) : call.log[i].step = step

\* C19: within one request the steps run in the order open archive, read
\* sort flag, find_first_image, extract_entry, magic-byte verification,
\* decode, compute target size, resize (when the size changes), composite,
\* channel swap, build surface; a step runs only after every earlier one
\* succeeded; decode runs only on bytes whose magic bytes are those of an
\* image; the buffer handed to the surface builder has 4 * target_width *
\* target_height bytes and alpha 255 in every pixel.
C19_StepsInOrder ==
    /\ IsPrefix(StepsRun, IF call.target = call.source THEN StepOrderUnresized
                          ELSE StepOrder)
    /\ \A i \in 1..(Len(call.log) - 1) : call.log[i].ok
    /\ call.pc = "failed" <=> (call.log # <<>> /\ ~call.log[Len(call.log)].ok)
    /\ HasRun("decode") => detect_image_format(call.data).ok
    /\ (call.pc = "build" \/ HasRun("build")) =>
          /\ Len(call.bgra) = 4 * call.target[1] * call.target[2]
          /\ \A p \in 1..(call.target[1] * call.target[2]) : call.bgra[4 * p] = 255

C19_Witness ==
    /\ call.pc = "done"
    /\ StepsRun = StepOrder
    /\ call.source = <<10, 3>>
    /\ call.target = <<2, 1>>
    /\ call.bgra = <<255, 255, 255, 255, 255, 255, 255, 255>>

----------------------------------------------------------------------------
(***************************************************************************)
(* open_archive_from_stream (archive/mod.rs): the reader is a byte stream  *)
(* and a position, at 0 when the function is entered (IStreamReader::new   *)
(* seeks there).                                                           *)
(***************************************************************************)
MaxStreamLen == 18

MAGIC_LEN == 16

\* streams: a signature (or text, or nothing) followed by filler
Streams ==
    {Padded(sig, fill, n) : sig \in Magics \cup {<<>>, TextBytes},
                            fill \in FillerBytes, n \in 0..MaxStreamLen}

\* what is left of the stream from the reader's position
Rest(stream, at) == SubSeq(stream, at + 1, Len(stream))

\* reader.seek(SeekFrom::Start(n)): the new position
SeekFrom_Current(at, n) == at

SeekFrom_Start(at, n) == n

InitOpenStream ==
    /\ OnlyCall
    /\ \E stream \in Streams :
          call = [pc |-> "read", fn |-> "open_archive_from_stream",
                  stream |-> stream, at |-> 0, magic_bytes |-> <<>>,
                  archive_type |-> "", backend |-> "", start |-> 0,
                  seen |-> <<>>, temp |-> FALSE, staged |-> <<>>,
                  err |-> Err("", "")]

OpenFailed(c, kind, msg) == [c EXCEPT !.pc = "failed", !.err = Err(kind, msg)]

\* reader.read_exact(&mut magic_bytes): the source may fail at any byte, and
\* a stream that ends first is an error
ReadMagic ==
    /\ call.pc = "read"
    /\ \/ \E k \in 0..Min(MAGIC_LEN, Len(call.stream)) :
             call' = [OpenFailed(call, "Archive", "Failed to read magic bytes")
                         EXCEPT !.at = k]
       \/ /\ Len(call.stream) - call.at < MAGIC_LEN
          /\ call' = [OpenFailed(call, "Archive", "Failed to read magic bytes")
                         EXCEPT !.at = Len(call.stream)]
       \/ /\ Len(call.stream) - call.at >= MAGIC_LEN
          /\ call' = [call EXCEPT
                         !.pc = "detect",
                         !.magic_bytes = SubSeq(call.stream, call.at + 1,
                                                call.at + MAGIC_LEN),
                         !.at = call.at + MAGIC_LEN]
    /\ UNCHANGED <<archVars, rar, dec, det>>

Detected(c, d) ==
    IF d.ok THEN [c EXCEPT !.pc = "seek", !.archive_type = d.type]
    ELSE OpenFailed(c, d.err, d.msg)

\* detect_archive_type_from_bytes(&magic_bytes)?
DetectType ==
    /\ call.pc = "detect"
    /\ call' = Detected(call, detect_archive_type_from_bytes(call.magic_bytes))
    /\ UNCHANGED <<archVars, rar, dec, det>>

\* reader.seek(SeekFrom::Start(0)), which the source may refuse
SeekToStart ==
    /\ call.pc = "seek"
    /\ \/ call' = OpenFailed(call, "Archive", "Failed to seek to start")
       \/ call' = [call EXCEPT !.pc = "construct",
                               !.at = SeekFrom_Start(call.at, 0)]
    /\ UNCHANGED <<archVars, rar, dec, det>>

StreamBackend(archive_type) ==
    CASE archive_type = "Zip" -> "ZipStream"
      [] archive_type = "Rar" -> "RarStream"
      [] OTHER -> "SevenZStream"

\* the constructor of the backend of the type, given the reader where it
\* stands; new_from_stream creates its temporary file and copies what is
\* left of the stream into it; the constructor may then fail
Construct ==
    /\ call.pc = "construct"
    /\ \E ok \in BOOLEAN :
          call' = [call EXCEPT
                      !.pc = IF ok THEN "done" ELSE "failed",
                      !.err = IF ok THEN Err("", "")
                              ELSE Err("Archive", "backend failed"),
                      !.backend = StreamBackend(call.archive_type),
                      !.start = call.at,
                      !.seen = Rest(call.stream, call.at),
                      !.temp = (call.archive_type = "Rar"),
                      !.staged = IF call.archive_type = "Rar"
                                 THEN Rest(call.stream, call.at) ELSE <<>>]
    /\ UNCHANGED <<archVars, rar, dec, det>>

NextOpenStream ==
    \/ ReadMagic
    \/ DetectType
    \/ SeekToStart
    \/ Construct

SpecOpenStream == InitOpenStream /\ [][NextOpenStream]_vars

\* the type the first bytes of the stream stand for, "" if none
TypeOfStream ==
    IF Len(call.stream) < MAGIC_LEN THEN ""
    ELSE IF SubSeq(call.stream, 1, 4) \in {ZipLocalMagic, ZipEndMagic, ZipSpanMagic}
    THEN "Zip"
    ELSE IF SubSeq(call.stream, 1, 6) = SevenZMagic THEN "SevenZip"
    ELSE IF SubSeq(call.stream, 1, 7) = Rar4Magic
            \/ SubSeq(call.stream, 1, 8) = Rar5Magic THEN "Rar"
    ELSE ""

\* C20: open_archive_from_stream classifies the first 16 bytes of the
\* source; a backend is constructed only with the reader back at offset 0,
\* so it, and the RAR staging copy, sees the whole stream; a source of
\* fewer than 16 bytes, an unreadable one, or one of no supported format
\* gives an error with no backend constructed and no temporary file.
C20_BackendSeesWholeStream ==
    /\ call.pc \in {"detect", "seek", "construct", "done"} =>
          call.magic_bytes = SubSeq(call.stream, 1, MAGIC_LEN)
    /\ call.backend # "" =>
          /\ TypeOfStream # ""
          /\ call.backend = StreamBackend(TypeOfStream)
          /\ call.start = 0
          /\ call.seen = call.stream
    /\ call.temp => (call.backend = "RarStream" /\ call.staged = call.stream)
    /\ TypeOfStream = "" => (call.backend = "" /\ ~call.temp /\ call.pc # "done")
    /\ (call.pc = "failed"
          /\ call.err.msg \in {"Failed to read magic bytes", "Data too short",
                               "Unrecognized archive format",
                               "Failed to seek to start"})
          => (call.backend = "" /\ ~call.temp)

C20_Witness ==
    /\ call.pc = "done"
    /\ call.backend = "RarStream"
    /\ call.temp
    /\ Len(call.stream) = 18
    /\ call.staged = call.stream

----------------------------------------------------------------------------
\* C21: whenever extract_entry returns successfully, on any backend, the
\* returned buffer holds at most 33,554,432 bytes, whatever size field the
\* ArchiveEntry passed by the caller carries.
C21_ReturnedBufferWithinCeiling ==
    (last.op = "extract" /\ last.res.ok) => last.res.len <= 33554432

----------------------------------------------------------------------------
(***************************************************************************)
(* Archives that hold directory entries.  ZipFile::is_dir is true of the   *)
(* names that end in a slash; the RAR and 7z headers carry a directory     *)
(* flag of their own.                                                      *)
(***************************************************************************)
MaxDirEntries == 3

CoverDirSlash == <<"p","a","g","e","0",".","j","p","g","/">>
CoverDir == <<"p","a","g","e","0",".","j","p","g">>

DirUniverse ==
    { ArchiveEntry(Page1, 7, FALSE),
      ArchiveEntry(Readme, 9, FALSE),
      ArchiveEntry(CoverDirSlash, 0, TRUE),
      ArchiveEntry(CoverDir, 0, TRUE) }

DirArchives == InjSeqs(DirUniverse, MaxDirEntries)

EndsInSlash(name) == Len(name) > 0 /\ name[Len(name)] = "/"

InitDirectory ==
    /\ Opened(DirArchives)
    /\ \A i \in 1..Len(archive) :
          EndsInSlash(archive[i].name) <=> (IsZip(backend) /\ archive[i].is_directory)

SpecDirectory == InitDirectory /\ [][NextSelect]_vars

\* C22: find_first_image, sorted or unsorted, on every backend, never
\* returns an entry whose is_directory flag is true.
C22_NeverReturnsDirectory ==
    (last.op = "find" /\ last.res.ok) => ~last.res.entry.is_directory

----------------------------------------------------------------------------
(***************************************************************************)
(* Archives with names that natord::compare takes for equal: it skips      *)
(* whitespace, so "page 1.jpg" and "page1.jpg" compare Equal.              *)
(***************************************************************************)
MaxTieEntries == 3

Page1Spaced == <<"p","a","g","e"," ","1",".","j","p","g">>

TieUniverse ==
    { ArchiveEntry(Page1, 7, FALSE),
      ArchiveEntry(Page1Spaced, 8, FALSE),
      ArchiveEntry(Page2, 9, FALSE),
      ArchiveEntry(Readme, 9, FALSE) }

TieArchives == InjSeqs(TieUniverse, MaxTieEntries)

InitTies == Opened(TieArchives)

SpecTies == InitTies /\ [][NextSelect]_vars

\* the same entries in any order
SameEntries(a, b) ==
    /\ Len(a) = Len(b)
    /\ {a[i] : i \in 1..Len(a)} = {b[i] : i \in 1..Len(b)}

\* C23: in sorted mode the selected entry depends only on the set of entry
\* names: every archive with the same entries in another enumeration order
\* yields the same selected entry.
C23_SelectionIndependentOfOrder ==
    (last.op = "find" /\ last.sort /\ last.res.ok /\ bad = 0) =>
        \A other \in TieArchives :
            SameEntries(other, archive) =>
                find_first_image(EntryNames(other), TRUE) = last.res.entry.name

----------------------------------------------------------------------------
\* how often event e is in a log
Count(log, e) == Cardinality({i \in 1..Len(log) : log[i] = e})

EntryNotFoundMessages == {"Entry not found", "Entry not found in RAR"}

----------------------------------------------------------------------------
(***************************************************************************)
(* Zero dimensions: calculate_thumbnail_size and resize_image called on    *)
(* their own, and create_thumbnail from its Step 2 on, with a decoded      *)
(* image of any size.                                                      *)
(***************************************************************************)
MaxZeroSide == 2

ZeroSides == 0..MaxZeroSide

InitZeroDims ==
    /\ OnlyCall
    /\ \/ \E sw \in SrcSides, sh \in SrcSides, mw \in MaxSides, mh \in MaxSides :
             call = [pc |-> "call", fn |-> "calculate_thumbnail_size",
                     src_width |-> sw, src_height |-> sh,
                     max_width |-> mw, max_height |-> mh, res |-> <<0, 0>>]
       \/ \E w \in ZeroSides, h \in ZeroSides, cx \in ZeroSides :
             call = [pc |-> "size", fn |-> "create_thumbnail", cx |-> cx,
                     log |-> <<>>, err |-> Err("", ""),
                     source |-> <<w, h>>, target |-> <<0, 0>>,
                     rgba |-> Raster(w, h, <<0, 128, 255>>, 65)]
       \/ \E w \in ZeroSides, h \in ZeroSides,
              tw \in ZeroSides, th \in ZeroSides :
             call = [pc |-> "call", fn |-> "resize_image",
                     source |-> Raster(w, h, <<0, 128, 255>>, 65),
                     target_width |-> tw, target_height |-> th,
                     res |-> [ok |-> FALSE, msg |-> "",
                              image |-> Raster(0, 0, <<0, 0, 0>>, 0)]]

\* resize_image called on its own
ResizeImage ==
    /\ call.pc = "call"
    /\ call.fn = "resize_image"
    /\ \E resamplerOk \in BOOLEAN, a \in ResizedAlphas :
          call' = [call EXCEPT !.pc = "done",
                      !.res = resize_image(call.source, call.target_width,
                                           call.target_height, resamplerOk, a)]
    /\ UNCHANGED <<archVars, rar, dec, det>>

NextZeroDims ==
    \/ CalculateThumbnailSize
    \/ SizeStep
    \/ ResizeStep
    \/ ResizeImage

SpecZeroDims == InitZeroDims /\ [][NextZeroDims]_vars

\* C25: calculate_thumbnail_size returns (0, 0) whenever a source side is
\* 0 and otherwise two sides of at least 1; create_thumbnail then fails
\* with the Image error at its size step and resize_image is not called
\* (it is only ever called with sides of at least 1); resize_image itself
\* fails whenever a target side is 0, also when the source has that size.
C25_ZeroDimensionsNeverResized ==
    /\ (call.fn = "calculate_thumbnail_size" /\ call.pc = "done") =>
          /\ (call.src_width = 0 \/ call.src_height = 0) => call.res = <<0, 0>>
          /\ (call.src_width >= 1 /\ call.src_height >= 1) =>
                (call.res[1] >= 1 /\ call.res[2] >= 1)
    /\ (call.fn = "create_thumbnail" /\ call.pc # "size") =>
          /\ (call.source[1] = 0 \/ call.source[2] = 0) =>
                /\ call.pc = "failed"
                /\ call.err = Err("Image", "Invalid image dimensions (0x0)")
                /\ call.log = <<Ran("size", FALSE)>>
          /\ (call.pc = "resize" \/ HasRun("resize")) =>
                (call.target[1] >= 1 /\ call.target[2] >= 1)
    /\ (call.fn = "resize_image" /\ call.pc = "done") =>
          ((call.target_width = 0 \/ call.target_height = 0) =>
              /\ ~call.res.ok
              /\ call.res.msg = "Target dimensions must be greater than zero")

C25_Witness ==
    /\ call.fn = "create_thumbnail"
    /\ call.source = <<0, 2>>
    /\ call.pc = "failed"
    /\ call.err.msg = "Invalid image dimensions (0x0)"

----------------------------------------------------------------------------
----------------------------------------------------------------------------
(***************************************************************************)
(* The AVIF box walk of detect_image_format, one loop iteration at a time. *)
(* hi is the highest index of data read so far (-1: none), prev the cursor *)
(* of the box the walk last stepped over and header its header size.       *)
(***************************************************************************)
MaxLongLen == 4110

\* a box of the given size and type free, then zeros, with an ftyp box of
\* 16 bytes and major brand avif at offset at
LongInput(size_hi, size_lo, at, len) ==
    [k \in 1..len |->
        IF k <= 8 THEN <<0, 0, size_hi, size_lo, 102, 114, 101, 101>>[k]
        ELSE IF k > at /\ k <= at + 12
             THEN <<0, 0, 0, 16, 102, 116, 121, 112, 97, 118, 105, 102>>[k - at]
        ELSE 0]

LongInputs ==
    { LongInput(15, 240, 4080, MaxLongLen),
      LongInput(15, 248, 4088, MaxLongLen),
      LongInput(16, 8, 4104, MaxLongLen) }

\* inputs that get as far as the box walk
WalkInputs ==
    {data \in ImageInputs \cup LongInputs :
        /\ Len(data) >= 16
        /\ FixedSignature(data) = "none"
        /\ ~(Range(data, 4, 8) = FtypTag /\ Range(data, 8, 12) \in AvifBrands)}

Max(x, y) == IF x >= y THEN x ELSE y

\* usize::saturating_sub
SaturatingSub(x, y) == IF x < y THEN 0 ELSE x - y

\* the bytes up to index k have been read
ReadTo(c, k) == [c EXCEPT !.hi = Max(c.hi, k)]

\* break: the walk is over, the raw scan starts
Break(c) == [c EXCEPT !.pc = "scan"]

\* return Ok(ImageFormat::Avif)
ReturnAvif(c) == [c EXCEPT !.pc = "done", !.found = TRUE]

\* the body of the loop behind the size checks
WalkBody(c, box_type, header_size, box_end) ==
    IF box_type = FtypTag
    THEN IF c.cursor + header_size + 4 > box_end THEN Break(c)
         ELSE IF Range(c.data, c.cursor + header_size, c.cursor + header_size + 4)
                    \in AvifBrands
              THEN ReturnAvif(ReadTo(c, c.cursor + header_size + 3))
         ELSE IF c.cursor + header_size + 8 <= box_end
              THEN [ReadTo(c, c.cursor + header_size + 3) EXCEPT
                       !.pc = "brands",
                       !.brand_offset = c.cursor + header_size + 8,
                       !.box_end = box_end]
         ELSE Break(ReadTo(c, c.cursor + header_size + 3))
    ELSE [c EXCEPT !.cursor = box_end, !.prev = c.cursor,
                   !.header = header_size, !.boxes = c.boxes + 1]

\* size == 1: the 64-bit size is read and checked
WalkLarge(c, box_type, large_size) ==
    IF large_size < 16 THEN Break(c)
    ELSE IF c.cursor + large_size > c.limit THEN Break(c)
    ELSE WalkBody(c, box_type, 16, c.cursor + large_size)

\* the size checks without the test of size < 8
WalkBox_NoMinimum(c, size, box_type) ==
    IF size = 1
    THEN IF c.cursor + 16 > c.limit THEN Break(c)
         ELSE WalkLarge(ReadTo(c, c.cursor + 15), box_type,
                        U64BE(c.data, c.cursor + 8))
    ELSE IF c.cursor + size > c.limit THEN Break(c)
    ELSE WalkBody(c, box_type, 8, c.cursor + size)

\* the size checks of one iteration
WalkBox(c, size, box_type) ==
    IF size = 1
    THEN IF c.cursor + 16 > c.limit THEN Break(c)
         ELSE WalkLarge(ReadTo(c, c.cursor + 15), box_type,
                        U64BE(c.data, c.cursor + 8))
    ELSE IF size < 8 THEN Break(c)
    ELSE IF c.cursor + size > c.limit THEN Break(c)
    ELSE WalkBody(c, box_type, 8, c.cursor + size)

InitBoxWalk ==
    /\ OnlyCall
    /\ \E data \in WalkInputs :
          call = [pc |-> "walk", fn |-> "detect_image_format", data |-> data,
                  limit |-> Min(Len(data), PARSE_CEILING),
                  cursor |-> 0, prev |-> 0, header |-> 0, boxes |-> 0,
                  brand_offset |-> 0, box_end |-> 0, i |-> 0,
                  hi |-> 11, found |-> FALSE]

\* while cursor + 8 <= parse_limit { ... }
WalkStep ==
    /\ call.pc = "walk"
    /\ call' = IF call.cursor + 8 > call.limit THEN Break(call)
               ELSE WalkBox(ReadTo(call, call.cursor + 7),
                            U32BE(call.data, call.cursor),
                            Range(call.data, call.cursor + 4, call.cursor + 8))
    /\ UNCHANGED <<archVars, rar, dec, det>>

\* while brand_offset + 4 <= box_end { ... } and the break behind it
BrandStep ==
    /\ call.pc = "brands"
    /\ call' = IF call.brand_offset + 4 > call.box_end THEN Break(call)
               ELSE IF Range(call.data, call.brand_offset, call.brand_offset + 4)
                          \in AvifBrands
                    THEN ReturnAvif(ReadTo(call, call.brand_offset + 3))
               ELSE [ReadTo(call, call.brand_offset + 3) EXCEPT
                        !.brand_offset = call.brand_offset + 4]
    /\ UNCHANGED <<archVars, rar, dec, det>>

\* for i in 0..=scan_limit.saturating_sub(8) { ... }
ScanStep ==
    /\ call.pc = "scan"
    /\ call' = IF call.i > SaturatingSub(Min(call.limit, SCAN_CEILING), 8)
               THEN [call EXCEPT !.pc = "done"]
               ELSE IF Range(call.data, call.i, call.i + 8) \in FtypAvif
                    THEN ReturnAvif(ReadTo(call, call.i + 7))
               ELSE [ReadTo(call, call.i + 7) EXCEPT !.i = call.i + 1]
    /\ UNCHANGED <<archVars, rar, dec, det>>

NextBoxWalk ==
    \/ WalkStep
    \/ BrandStep
    \/ ScanStep

SpecBoxWalk == InitBoxWalk /\ [][NextBoxWalk]_vars /\ WF_vars(NextBoxWalk)

\* the size the box at offset k declares
DeclaredSize(data, k) ==
    IF U32BE(data, k) = 1 THEN U64BE(data, k + 8) ELSE U32BE(data, k)

WalkInBounds ==
    /\ call.hi < Len(call.data)
    /\ call.limit <= Len(call.data)
    /\ call.limit <= 4096
    /\ call.cursor <= call.limit
    /\ 8 * call.boxes <= call.cursor
    /\ call.boxes > 0 =>
          /\ call.header = (IF U32BE(call.data, call.prev) = 1 THEN 16 ELSE 8)
          /\ call.cursor - call.prev >= call.header
          /\ call.cursor = call.prev + DeclaredSize(call.data, call.prev)
    /\ call.pc = "brands" =>
          (call.box_end <= call.limit /\ call.brand_offset <= call.box_end + 3)
    /\ call.i <= 57

\* C27: the AVIF box walk terminates for every input and never reads
\* outside the buffer: every box stepped over moved the cursor by its
\* declared size, which is at least its header size (8, or 16 for a 64-bit
\* size) and ends within min(len, 4096); every index read by the walk, the
\* brand loop and the 64-byte scan is below the buffer length; and the
\* detection comes to its end.
C27_BoxWalkTerminatesInBounds == [](WalkInBounds) /\ <>(call.pc = "done")

C27_Witness ==
    /\ call.pc = "done"
    /\ call.boxes = 1
    /\ call.header = 16
    /\ call.cursor - call.prev >= 16
    /\ ~call.found

----------------------------------------------------------------------------
(***************************************************************************)
(* CBXShell's source (com/cbxshell.rs): stream and file_path are two       *)
(* Mutex<Option<..>> fields, each assignment takes its own lock for one    *)
(* statement.  Threads call Initialize of the three IInitializeWith*       *)
(* interfaces on one object.                                               *)
(***************************************************************************)
MaxThreads == 2
MaxInitCalls == 2

Threads == 1..MaxThreads

None == "None"

InitKinds == {"Stream", "File", "Item"}

\* what a caller passes: a stream or a path, or a null pointer / empty path
InitArgs(kind) ==
    IF kind = "Stream" THEN {None, "stream1", "stream2"}
    ELSE {"", "path1", "path2"}

InitInitialize ==
    /\ OnlyCall
    /\ call = [fn |-> "Initialize", stream |-> None, file_path |-> None,
               pc |-> [t \in Threads |-> "idle"],
               kind |-> [t \in Threads |-> "Stream"],
               arg |-> [t \in Threads |-> None],
               calls |-> [t \in Threads |-> 0],
               completed |-> 0, latest |-> None, hr |-> "S_OK"]

\* the checks of the argument: E_POINTER for a null stream or item,
\* E_INVALIDARG for a null or empty path
InitializeEnter(t, kind, arg) ==
    /\ call.pc[t] = "idle"
    /\ call.calls[t] < MaxInitCalls
    /\ call' = IF arg = None
               THEN [call EXCEPT !.calls[t] = @ + 1, !.hr = "E_POINTER"]
               ELSE IF arg = ""
               THEN [call EXCEPT !.calls[t] = @ + 1, !.hr = "E_INVALIDARG"]
               ELSE [call EXCEPT !.calls[t] = @ + 1, !.pc[t] = "store",
                                 !.kind[t] = kind, !.arg[t] = arg]
    /\ UNCHANGED <<archVars, rar, dec, det>>

\* *self.stream.lock().unwrap() = Some(stream), or
\* *self.file_path.lock().unwrap() = Some(path)
InitializeStore(t) ==
    /\ call.pc[t] = "store"
    /\ call' = IF call.kind[t] = "Stream"
               THEN [call EXCEPT !.stream = call.arg[t], !.pc[t] = "clear"]
               ELSE [call EXCEPT !.file_path = call.arg[t], !.pc[t] = "clear"]
    /\ UNCHANGED <<archVars, rar, dec, det>>

\* *self.file_path.lock().unwrap() = None, or
\* *self.stream.lock().unwrap() = None, and Ok(())
InitializeClear(t) ==
    /\ call.pc[t] = "clear"
    /\ call' = IF call.kind[t] = "Stream"
               THEN [call EXCEPT !.file_path = None, !.pc[t] = "idle",
                                 !.completed = @ + 1, !.latest = call.arg[t],
                                 !.hr = "S_OK"]
               ELSE [call EXCEPT !.stream = None, !.pc[t] = "idle",
                                 !.completed = @ + 1, !.latest = call.arg[t],
                                 !.hr = "S_OK"]
    /\ UNCHANGED <<archVars, rar, dec, det>>

NextInitialize ==
    \/ \E t \in Threads, kind \in InitKinds :
          \E arg \in InitArgs(kind) : InitializeEnter(t, kind, arg)
    \/ \E t \in Threads : InitializeStore(t)
    \/ \E t \in Threads : InitializeClear(t)

SpecInitialize == InitInitialize /\ [][NextInitialize]_vars

\* C28: once an Initialize call has completed successfully and no call is
\* in progress, exactly one of the stored stream and the stored file path
\* is set, under every interleaving of concurrent calls.
C28_ExactlyOneSourceSet ==
    (call.completed >= 1 /\ \A t \in Threads : call.pc[t] = "idle") =>
        ((call.stream # None) # (call.file_path # None))

----------------------------------------------------------------------------
(***************************************************************************)
(* The DLL reference count (lib.rs): DLL_REF_COUNT is an AtomicU32, kept   *)
(* here as its two 16-bit halves so that the wrap of fetch_sub at 0 is     *)
(* the wrap of the code.                                                   *)
(***************************************************************************)
MaxObjects == 2
MaxLockCalls == 2

U32Zero == [hi |-> 0, lo |-> 0]

\* DLL_REF_COUNT.fetch_add(1, SeqCst)
add_dll_ref(n) ==
    IF n.lo = HALF - 1 THEN [hi |-> (n.hi + 1) % HALF, lo |-> 0]
    ELSE [hi |-> n.hi, lo |-> n.lo + 1]

\* DLL_REF_COUNT.fetch_sub(1, SeqCst)
release_dll_ref(n) ==
    IF n.lo = 0 THEN [hi |-> (n.hi + HALF - 1) % HALF, lo |-> HALF - 1]
    ELSE [hi |-> n.hi, lo |-> n.lo - 1]

InitDll ==
    /\ OnlyCall
    /\ call = [fn |-> "dll", DLL_REF_COUNT |-> U32Zero,
               factories |-> 0, shells |-> 0, locks |-> 0, unlocks |-> 0,
               asked |-> FALSE, hr |-> "", in_use |-> FALSE]

\* ClassFactory::new, from DllGetClassObject
ClassFactoryNew ==
    /\ call.factories < MaxObjects
    /\ call' = [call EXCEPT !.factories = @ + 1,
                            !.DLL_REF_COUNT = add_dll_ref(@)]
    /\ UNCHANGED <<archVars, rar, dec, det>>

\* ClassFactory::CreateInstance: no object with an outer unknown; else
\* CBXShell::new, and the object is dropped again when the interface
\* asked for is not there
CreateInstance ==
    /\ call.factories >= 1
    /\ call.shells < MaxObjects
    /\ \E aggregated \in BOOLEAN, queried \in BOOLEAN :
          call' = IF aggregated THEN call
                  ELSE IF queried
                  THEN [call EXCEPT !.shells = @ + 1,
                                    !.DLL_REF_COUNT = add_dll_ref(@)]
                  ELSE [call EXCEPT
                           !.DLL_REF_COUNT = release_dll_ref(add_dll_ref(@))]
    /\ UNCHANGED <<archVars, rar, dec, det>>

\* impl Drop for ClassFactory
DropClassFactory ==
    /\ call.factories >= 1
    /\ call' = [call EXCEPT !.factories = @ - 1,
                            !.DLL_REF_COUNT = release_dll_ref(@)]
    /\ UNCHANGED <<archVars, rar, dec, det>>

\* impl Drop for CBXShell
DropCBXShell ==
    /\ call.shells >= 1
    /\ call' = [call EXCEPT !.shells = @ - 1,
                            !.DLL_REF_COUNT = release_dll_ref(@)]
    /\ UNCHANGED <<archVars, rar, dec, det>>

\* ClassFactory::LockServer(flock), on a live factory
LockServer(flock) ==
    /\ call.factories >= 1
    /\ call.locks + call.unlocks < MaxLockCalls
    /\ call' = IF flock
               THEN [call EXCEPT !.locks = @ + 1,
                                 !.DLL_REF_COUNT = add_dll_ref(@)]
               ELSE [call EXCEPT !.unlocks = @ + 1,
                                 !.DLL_REF_COUNT = release_dll_ref(@)]
    /\ UNCHANGED <<archVars, rar, dec, det>>

\* DllCanUnloadNow; in_use records whether an object was alive or a lock
\* outstanding when it was asked
DllCanUnloadNow ==
    /\ call' = [call EXCEPT
                   !.asked = TRUE,
                   !.hr = IF call.DLL_REF_COUNT = U32Zero THEN "S_OK"
                          ELSE "S_FALSE",
                   !.in_use = (call.factories + call.shells > 0
                                 \/ call.locks # call.unlocks)]
    /\ UNCHANGED <<archVars, rar, dec, det>>

NextDll ==
    \/ ClassFactoryNew
    \/ CreateInstance
    \/ DropClassFactory
    \/ DropCBXShell
    \/ \E flock \in BOOLEAN : LockServer(flock)
    \/ DllCanUnloadNow

SpecDll == InitDll /\ [][NextDll]_vars

ExpectedCount == call.factories + call.shells + call.locks - call.unlocks

\* C29: after any sequence of object creations, drops and LockServer
\* calls the DLL reference count is (live ClassFactory objects) + (live
\* CBXShell objects) + (LockServer(TRUE) calls - LockServer(FALSE) calls),
\* it never wraps below zero, and DllCanUnloadNow returns S_OK exactly
\* when no object is alive and no lock is outstanding.
C29_RefCountIsLiveObjectsPlusLocks ==
    /\ ExpectedCount >= 0
    /\ call.DLL_REF_COUNT = AsU32(ExpectedCount)
    /\ call.asked => (call.hr = "S_OK" <=> ~call.in_use)

----------------------------------------------------------------------------
(***************************************************************************)
(* create_hbitmap_from_bgra on its own, with sides up to 2^30 + 1 and      *)
(* buffers of a few bytes.                                                 *)
(***************************************************************************)
MaxBgraLen == 8

HbitmapSides == {0, 1, 2, 3, 32768, 65536, 1073741825}

HbitmapBuffers == {[k \in 1..n |-> 255] : n \in 0..MaxBgraLen}

InitHbitmap ==
    /\ OnlyCall
    /\ \E bgra_data \in HbitmapBuffers, width \in HbitmapSides,
          height \in HbitmapSides :
          call = [pc |-> "build", fn |-> "create_hbitmap_from_bgra",
                  log |-> <<>>, err |-> Err("", ""),
                  target |-> <<width, height>>, bgra |-> bgra_data]

SpecHbitmap == InitHbitmap /\ [][BuildStep]_vars

\* the buffer holds exactly 4 * width * height bytes (a buffer of the
\* model is shorter than 2^32 bytes)
LengthMatches(c) ==
    /\ ~SizeOverflows(c.target[1], c.target[2])
    /\ AsU32(Len(c.bgra)) = expected_size(c.target[1], c.target[2])

\* C30: create_hbitmap_from_bgra returns an error whenever width = 0,
\* height = 0 or the buffer length differs from the true product
\* 4 * width * height, also when that product exceeds 2^32 - 1, so no
\* bitmap is created from a buffer whose length does not match its
\* dimensions.
C30_WrongSizeBufferRejected ==
    (call.fn = "create_hbitmap_from_bgra" /\ call.pc # "build") =>
        ((call.target[1] = 0 \/ call.target[2] = 0 \/ ~LengthMatches(call))
            => call.pc = "failed")
====
